---- MODULE Spec2Model ----
(***************************************************************************)
(* Sigmaris Persona Core: the per-turn state-orchestration pipeline.        *)
(*                                                                          *)
(*   TraitDriftEngine.apply        persona_core/trait/trait_drift_engine.py *)
(*   GlobalStateMachine.decide     persona_core/state/global_state_machine  *)
(*   PersonaController.handle_turn persona_core/controller/persona_controller*)
(*   the shared controller of      server.py                                *)
(*                                                                          *)
(* Floats are fixed-point integers: the float 1.0 is the integer One, and   *)
(* a product x * c is rounded to the nearest unit (MulFrac), as the float   *)
(* product is rounded to the nearest float.  Only finite floats are         *)
(* modelled.  Strings are modelled by what the code tests of them (length,  *)
(* presence of a marker word).                                              *)
(***************************************************************************)
EXTENDS Integers, Sequences, FiniteSets, TLC

VARIABLES
    ctrl,    \* the PersonaController's own fields: _value_state, _trait_state, _prev_global_state
    turn,    \* per request thread: position in handle_turn, its arguments and locals
    db,      \* what the turns have persisted: trait snapshots, episode-store adds, episode records
    hist,    \* history: what the finished turns decided, and who wrote the controller fields
    call     \* a direct call of one engine: its arguments and its result

vars == <<ctrl, turn, db, hist, call>>

None == "None"

(***************************************************************************)
(* Bounds of the model.                                                     *)
(***************************************************************************)
MaxTurns == 2        \* handle_turn calls begun in one behaviour
MaxApplyCalls == 2   \* consecutive direct TraitDriftEngine.apply calls

(***************************************************************************)
(* Fixed-point arithmetic.                                                  *)
(***************************************************************************)
One == 2000000       \* the float 1.0

Abs(x) == IF x >= 0 THEN x ELSE -x

Max(a, b) == IF a >= b THEN a ELSE b

\* x * n / d rounded to the nearest unit, halves away from zero; no
\* intermediate exceeds |x| + n * d.
MulFrac(x, n, d) ==
    LET a == Abs(x)
        q == a \div d
        r == a % d
        m == q * n + ((r * n + d \div 2) \div d)
    IN  IF x >= 0 THEN m ELSE -m

(***************************************************************************)
(* TraitDriftEngine                                                         *)
(***************************************************************************)
TraitAxes == {"calm", "empathy", "curiosity"}

\* TraitState(): every axis 0.0
TraitState0 == [calm |-> 0, empathy |-> 0, curiosity |-> 0]

\* __init__ defaults: learning_rate = 0.01, max_abs_value = 1.0, decay_rate = 0.0005
_lr == 20000
_limit == 2000000
_decay == 1000

\* The pair (state, deltas) the influence functions update in place.
TraitAcc(state) == [state |-> state, deltas |-> [k \in TraitAxes |-> 0]]

\* AddTo recording only the last dv: deltas[<axis>] = dv
AddTo_last_only(acc, axis, dv) ==
    [state  |-> [acc.state  EXCEPT ![axis] = @ + dv],
     deltas |-> [acc.deltas EXCEPT ![axis] = dv]]

\* state.<axis> += dv; deltas[<axis>] += dv
AddTo(acc, axis, dv) ==
    [state  |-> [acc.state  EXCEPT ![axis] = @ + dv],
     deltas |-> [acc.deltas EXCEPT ![axis] = @ + dv]]

\* _apply_decay with the sign of dv reversed: every axis moves away from 0
_apply_decay_away(acc) ==
    [state  |-> [k \in TraitAxes |-> acc.state[k] + MulFrac(acc.state[k], _decay, One)],
     deltas |-> [k \in TraitAxes |-> acc.deltas[k] + MulFrac(acc.state[k], _decay, One)]]

\* dv = -v * decay, for every axis
_apply_decay(acc) ==
    [state  |-> [k \in TraitAxes |-> acc.state[k] - MulFrac(acc.state[k], _decay, One)],
     deltas |-> [k \in TraitAxes |-> acc.deltas[k] - MulFrac(acc.state[k], _decay, One)]]

\* identity.identity_context: has_past_context, and whether topic_label
\* holds one of the negative markers
_apply_identity_influence(acc, identity) ==
    LET a1 == IF identity.has_past_context
              THEN AddTo(acc, "calm", MulFrac(_lr, 3, 10))
              ELSE acc
    IN  IF identity.topic_neg
        THEN AddTo(a1, "calm", -MulFrac(_lr, 4, 10))
        ELSE a1

\* count = len(memory.pointers)
_apply_memory_influence(acc, memory) ==
    IF memory.pointers >= 3
    THEN AddTo(acc, "empathy", MulFrac(_lr, 4, 10))
    ELSE IF memory.pointers >= 1 /\ memory.pointers <= 2
         THEN AddTo(acc, "empathy", MulFrac(_lr, 2, 10))
         ELSE acc

\* base * 0.5 * openness; base * 0.4 * safety_bias; -base * 0.3 * safety_bias
_apply_value_influence(acc, value_state) ==
    LET a1 == IF value_state.openness > 0
              THEN AddTo(acc, "curiosity", MulFrac(value_state.openness, 5, 1000))
              ELSE acc
    IN  IF value_state.safety_bias > 0
        THEN AddTo(AddTo(a1, "calm", MulFrac(value_state.safety_bias, 4, 1000)),
                   "curiosity", -MulFrac(value_state.safety_bias, 3, 1000))
        ELSE a1

\* affect_signal is a map of named floats; None and the empty map are both
\* falsy to the code and are both the empty map here.  A missing key reads
\* as 0.0.
NoAffect == [k \in {} |-> 0]

AffectGet(affect_signal, key) ==
    IF key \in DOMAIN affect_signal THEN affect_signal[key] ELSE 0

\* if not affect_signal: return
_apply_affect_influence(acc, affect_signal) ==
    IF DOMAIN affect_signal = {}
    THEN acc
    ELSE LET tension == AffectGet(affect_signal, "tension")
             warmth  == AffectGet(affect_signal, "warmth")
             cur     == AffectGet(affect_signal, "curiosity")
             a1 == IF tension # 0 THEN AddTo(acc, "calm", -MulFrac(tension, 5, 1000)) ELSE acc
             a2 == IF warmth # 0 THEN AddTo(a1, "empathy", MulFrac(warmth, 6, 1000)) ELSE a1
         IN  IF cur # 0 THEN AddTo(a2, "curiosity", MulFrac(cur, 7, 1000)) ELSE a2

\* _clip_state without its elif branch: the lower limit is not enforced
_clip_state_upper_only(state) ==
    [k \in TraitAxes |-> IF state[k] > _limit THEN _limit ELSE state[k]]

\* [-limit, +limit]
_clip_state(state) ==
    [k \in TraitAxes |->
        IF state[k] > _limit THEN _limit
        ELSE IF state[k] < -_limit THEN -_limit
        ELSE state[k]]

\* TraitDriftEngine.apply without the snapshot write: decay, the four
\* influences in the code's order, the clip; returns new_state and delta.
TraitApply(current, memory, identity, value_state, affect_signal) ==
    LET a0 == TraitAcc([k \in TraitAxes |-> current[k]])
        a1 == _apply_decay(a0)
        a2 == _apply_identity_influence(a1, identity)
        a3 == _apply_memory_influence(a2, memory)
        a4 == _apply_value_influence(a3, value_state)
        a5 == _apply_affect_influence(a4, affect_signal)
    IN  [new_state |-> _clip_state(a5.state), delta |-> a5.deltas]

(***************************************************************************)
(* GlobalStateMachine                                                       *)
(***************************************************************************)
\* class PersonaGlobalState(Enum)
PersonaGlobalState == {"NORMAL", "REFLECTIVE", "OVERLOADED", "SAFETY_LOCK", "SILENT"}

\* __init__ defaults: 0.75, 0.6, -0.4, 0.4, 0.5
_overload_threshold == 1500000
_high_safety_bias_threshold == 1200000
_low_calm_threshold == -800000
_high_calm_threshold == 800000
_high_curiosity_threshold == 1000000

\* the score at which decide() turns REFLECTIVE: reflective_score >= 1.0
ReflectiveTrigger == One

\* safety_flag in ("escalated", "blocked", "intervened")
SafetyFlags == {"escalated", "blocked", "intervened"}

\* Optional[float]: None is the empty tuple, a float x the tuple <<x>>
NoScore == <<>>
Score(x) == <<x>>

\* req.message is modelled by its length; identity.topic_label (an attribute
\* the FSM reads with getattr, None when absent) by whether it is present
\* and holds one of the analysis markers.
_estimate_reflective_need(req, memory, identity, value_state, trait_state) ==
    LET n == memory.pointers
        s1 == IF n >= 5 THEN MulFrac(One, 7, 10)
              ELSE IF n >= 3 /\ n <= 4 THEN MulFrac(One, 5, 10)
              ELSE IF n >= 1 /\ n <= 2 THEN MulFrac(One, 2, 10)
              ELSE 0
        s2 == IF identity.topic_label = "marker" THEN MulFrac(One, 6, 10) ELSE 0
        s3 == IF trait_state.calm >= _high_calm_threshold THEN MulFrac(One, 3, 10)
              ELSE IF trait_state.calm <= _low_calm_threshold THEN -MulFrac(One, 2, 10)
              ELSE 0
        s4 == IF trait_state.curiosity >= _high_curiosity_threshold
              THEN MulFrac(One, 3, 10) ELSE 0
        s5 == MulFrac(Max(0, value_state.safety_bias), 4, 10)
              + MulFrac(Max(0, value_state.stability), 2, 10)
        L  == req.len
        s6 == IF L >= 400 THEN MulFrac(One, 2, 10)
              ELSE IF L >= 200 THEN MulFrac(One, 1, 10)
              ELSE 0
    IN  s1 + s2 + s3 + s4 + s5 + s6

\* chosen = PersonaGlobalState.NORMAL; reasons = []
default_choice == [chosen |-> "NORMAL", reasons |-> <<>>]

\* safety_rule recording the same reason whichever flag fired
safety_rule_flag_unnamed(c, safety_flag, value_state) ==
    IF safety_flag \in SafetyFlags
          \/ value_state.safety_bias >= _high_safety_bias_threshold
    THEN [chosen |-> "SAFETY_LOCK", reasons |-> Append(c.reasons, "safety")]
    ELSE c

\* 1) if safety_flag in (...): SAFETY_LOCK
\*    elif value_state.safety_bias >= high_safety_bias_threshold: SAFETY_LOCK
safety_rule(c, safety_flag, value_state) ==
    IF safety_flag \in SafetyFlags
    THEN [chosen |-> "SAFETY_LOCK",
          reasons |-> Append(c.reasons, "safety_flag=" \o safety_flag)]
    ELSE IF value_state.safety_bias >= _high_safety_bias_threshold
         THEN [chosen |-> "SAFETY_LOCK",
               reasons |-> Append(c.reasons, "value_state.safety_bias")]
         ELSE c

\* overload_rule without the "chosen != SAFETY_LOCK" test
overload_rule_unguarded(c, overload_score) ==
    IF overload_score # NoScore /\ overload_score[1] >= _overload_threshold
    THEN [chosen |-> "OVERLOADED", reasons |-> Append(c.reasons, "overload_score")]
    ELSE c

\* 2) if chosen != SAFETY_LOCK:
\*        if overload_score is not None and overload_score >= threshold: OVERLOADED
overload_rule(c, overload_score) ==
    IF c.chosen # "SAFETY_LOCK"
       /\ overload_score # NoScore
       /\ overload_score[1] >= _overload_threshold
    THEN [chosen |-> "OVERLOADED", reasons |-> Append(c.reasons, "overload_score")]
    ELSE c

\* reflective_rule with an automatic silence trigger on a negative score
reflective_rule_silent(c, reflective_score) ==
    IF c.chosen \notin {"SAFETY_LOCK", "OVERLOADED"}
    THEN IF reflective_score >= ReflectiveTrigger
         THEN [chosen |-> "REFLECTIVE", reasons |-> Append(c.reasons, "reflective_score")]
         ELSE IF reflective_score < 0
              THEN [chosen |-> "SILENT", reasons |-> Append(c.reasons, "silent")]
              ELSE c
    ELSE c

\* reflective_rule with > in place of >=
reflective_rule_strict(c, reflective_score) ==
    IF c.chosen \notin {"SAFETY_LOCK", "OVERLOADED"}
       /\ reflective_score > ReflectiveTrigger
    THEN [chosen |-> "REFLECTIVE", reasons |-> Append(c.reasons, "reflective_score")]
    ELSE c

\* 3) if chosen not in (SAFETY_LOCK, OVERLOADED):
\*        if reflective_score >= 1.0: REFLECTIVE
reflective_rule(c, reflective_score) ==
    IF c.chosen \notin {"SAFETY_LOCK", "OVERLOADED"}
       /\ reflective_score >= ReflectiveTrigger
    THEN [chosen |-> "REFLECTIVE", reasons |-> Append(c.reasons, "reflective_score")]
    ELSE c

\* decide(): the score, the three rules in priority order, the context
decide(req, memory, identity, value_state, trait_state, safety_flag, overload_score, prev_state) ==
    LET reflective_score ==
            _estimate_reflective_need(req, memory, identity, value_state, trait_state)
        c1 == safety_rule(default_choice, safety_flag, value_state)
        c2 == overload_rule(c1, overload_score)
        c3 == reflective_rule(c2, reflective_score)
    IN  [state      |-> c3.chosen,
         prev_state |-> prev_state,
         reasons    |-> c3.reasons,
         meta       |-> [reflective_score |-> reflective_score]]

(***************************************************************************)
(* ValueDriftEngine.apply (persona_core.value.value_drift_engine).          *)
(* Decay of every axis toward the center 0, the sum of this turn's          *)
(* influence deltas, the clamp to [-1, 1].  The influence rules are not     *)
(* modelled one by one: infl is the per-axis sum they yield for the turn.   *)
(***************************************************************************)
ValueAxes == {"stability", "openness", "safety_bias", "user_alignment"}

\* ValueState(): every axis 0.0
ValueState0 == [stability |-> 0, openness |-> 0, safety_bias |-> 0, user_alignment |-> 0]

ValueClamp(v) == IF v > One THEN One ELSE IF v < -One THEN -One ELSE v

ValueApply(current, infl) ==
    LET moved == [k \in ValueAxes |-> current[k] - MulFrac(current[k], _decay, One) + infl[k]]
    IN  [new_state |-> [k \in ValueAxes |-> ValueClamp(moved[k])],
         delta     |-> [k \in ValueAxes |-> moved[k] - current[k]]]

(***************************************************************************)
(* IdentityContinuityEngineV3.build_identity_context, as far as the drift   *)
(* engine and the FSM read its result: has_past_context, whether the topic  *)
(* label holds a negative marker, and the topic_label attribute, which the  *)
(* result object does not have (the label lives in identity_context).       *)
(* No anchor engine is wired in (server.py, server_bridge.py).              *)
(***************************************************************************)
build_identity_context(req, memory) ==
    LET has_past_context == memory.pointers > 0
    IN  [has_past_context |-> has_past_context,
         topic_neg        |-> (~has_past_context) /\ req.len > 0 /\ req.neg,
         topic_label      |-> None]

(***************************************************************************)
(* PersonaController                                                        *)
(***************************************************************************)
\* request threads of the server's pool; MainThread is the caller of a
\* sequence of calls
Threads == {"t1", "t2"}
MainThread == "t1"

Users == {"u1", "u2"}

\* the write-back operations that can raise
PersistOps == {"encode", "add", "store_episode_record", "store_trait_snapshot"}

\* the arguments of a turn and the outcomes of its collaborators
Requests == {[len |-> 12, neg |-> FALSE]}
TurnSafetyFlags == {None, "blocked"}
TurnOverloadScores == {NoScore}
TurnAffectSignals == {NoAffect}
MemoryOutcomes == {[ok |-> FALSE, pointers |-> 0],
                   [ok |-> TRUE, pointers |-> 0],
                   [ok |-> TRUE, pointers |-> 3]}
ValueInfluences ==
    {ValueState0,
     [stability |-> 0, openness |-> 200000, safety_bias |-> 800000, user_alignment |-> 0]}
\* what the LLM client meets in a turn: the completion arrives, the
\* transport (client.chat.completions.create) fails, or generate itself
\* raises outside its try block
LLMOutcomes == {"ok", "transport_error", "raise"}
FaultSets == {{}, {"add"}, PersistOps}

TurnArgs ==
    [user_id : Users, req : Requests, safety_flag : TurnSafetyFlags,
     overload_score : TurnOverloadScores, affect_signal : TurnAffectSignals,
     memory : MemoryOutcomes, value_infl : ValueInfluences,
     llm : LLMOutcomes, faults : FaultSets]

\* the states a controller is constructed with: the defaults, or a state
\* restored from the last snapshots
InitialStates ==
    {[value_state |-> ValueState0, trait_state |-> TraitState0],
     [value_state |-> [stability |-> 1600000, openness |-> 0,
                       safety_bias |-> 600000, user_alignment |-> 0],
      trait_state |-> [calm |-> 1000000, empathy |-> 0, curiosity |-> 1200000]]}

\* __init__
NewController(s0) ==
    [value_state       |-> s0.value_state,
     trait_state       |-> s0.trait_state,
     prev_global_state |-> None]

NoArgs == CHOOSE a \in TurnArgs : TRUE

NoContext == [state |-> None, prev_state |-> None, reasons |-> <<>>,
              meta |-> [reflective_score |-> 0]]

\* a thread that is not in handle_turn
IdleTurn ==
    [pc               |-> "idle",
     args             |-> NoArgs,
     entry            |-> NewController([value_state |-> ValueState0, trait_state |-> TraitState0]),
     trace            |-> <<>>,
     read_from        |-> {},
     memory_result    |-> [pointers |-> 0],
     identity_result  |-> build_identity_context([len |-> 0, neg |-> FALSE], [pointers |-> 0]),
     value_result     |-> [new_state |-> ValueState0, delta |-> ValueState0],
     trait_result     |-> [new_state |-> TraitState0, delta |-> TraitState0],
     trait_in_value   |-> ValueState0,
     global_state_ctx |-> NoContext,
     fsm_in           |-> [value_state |-> ValueState0, trait_state |-> TraitState0],
     llm_in           |-> [value_state |-> ValueState0, trait_state |-> TraitState0],
     reply_text       |-> None,
     swallowed        |-> {}]

NoDb == [trait_snapshots |-> 0, episode_adds |-> 0, episode_records |-> 0]

NoHist(c0) ==
    [initial |-> c0,
     turns |-> 0,
     last  |-> [kind |-> "none", state |-> None],
     owner |-> [value_state |-> None, trait_state |-> None, prev_global_state |-> None]]

NoCall == [op |-> "none"]

Init ==
    /\ \E s0 \in InitialStates : ctrl = NewController(s0)
    /\ turn = [t \in Threads |-> IdleTurn]
    /\ db = NoDb
    /\ hist = NoHist(ctrl)
    /\ call = NoCall

(***************************************************************************)
(* handle_turn, one action per stage.  A stage that reads a controller      *)
(* field and a statement that assigns one are separate steps: another       *)
(* request thread can run between them.                                     *)
(***************************************************************************)
AllIdle == \A t \in Threads : turn[t].pc = "idle"

Stage(t, name) == Append(turn[t].trace, name)

\* the owners of the controller fields a stage reads
Readers(t, fields) == turn[t].read_from \cup {hist.owner[f] : f \in fields}

\* handle_turn is entered with arguments a
BeginTurn(t, a) ==
    /\ turn[t].pc = "idle"
    /\ hist.turns < MaxTurns
    /\ turn' = [turn EXCEPT ![t] = [IdleTurn EXCEPT !.pc = "memory", !.args = a, !.entry = ctrl]]
    /\ hist' = [hist EXCEPT !.turns = @ + 1]
    /\ UNCHANGED <<ctrl, db, call>>

\* 1) memory_result = self._select_memory(...): the orchestrator returns a
\*    selection or raises; nothing catches it
SelectMemory(t) ==
    /\ turn[t].pc = "memory"
    /\ turn' = [turn EXCEPT ![t] =
                  IF turn[t].args.memory.ok
                  THEN [@ EXCEPT !.pc = "identity",
                                 !.trace = Stage(t, "memory"),
                                 !.memory_result = [pointers |-> turn[t].args.memory.pointers]]
                  ELSE [@ EXCEPT !.pc = "raised", !.trace = Stage(t, "memory")]]
    /\ UNCHANGED <<ctrl, db, hist, call>>

\* 2) identity_result = self._identity.build_identity_context(...)
BuildIdentity(t) ==
    /\ turn[t].pc = "identity"
    /\ turn' = [turn EXCEPT ![t] =
                  [@ EXCEPT !.pc = "value",
                            !.trace = Stage(t, "identity"),
                            !.identity_result =
                                build_identity_context(turn[t].args.req, turn[t].memory_result)]]
    /\ UNCHANGED <<ctrl, db, hist, call>>

\* 3) value_result = self._value.apply(current=self._value_state, ...)
ValueDrift(t) ==
    /\ turn[t].pc = "value"
    /\ turn' = [turn EXCEPT ![t] =
                  [@ EXCEPT !.pc = "value_set",
                            !.trace = Stage(t, "value"),
                            !.read_from = Readers(t, {"value_state"}),
                            !.value_result = ValueApply(ctrl.value_state, turn[t].args.value_infl)]]
    /\ UNCHANGED <<ctrl, db, hist, call>>

\*    self._value_state = value_result.new_state
ValueSet(t) ==
    /\ turn[t].pc = "value_set"
    /\ ctrl' = [ctrl EXCEPT !.value_state = turn[t].value_result.new_state]
    /\ hist' = [hist EXCEPT !.owner.value_state = turn[t].args.user_id]
    /\ turn' = [turn EXCEPT ![t].pc = "trait"]
    /\ UNCHANGED <<db, call>>

\* _store_snapshot_if_supported: db.store_trait_snapshot(...) inside
\* try/except Exception: pass
StoreSnapshot(t) ==
    IF "store_trait_snapshot" \in turn[t].args.faults
    THEN db
    ELSE [db EXCEPT !.trait_snapshots = @ + 1]

\* TraitDrift handing the engine the value state the turn started with
TraitDrift_stale_value(t) ==
    /\ turn[t].pc = "trait"
    /\ turn' = [turn EXCEPT ![t] =
                  [@ EXCEPT !.pc = "trait_set",
                            !.trace = Stage(t, "trait"),
                            !.read_from = Readers(t, {"trait_state", "value_state"}),
                            !.trait_in_value = turn[t].entry.value_state,
                            !.swallowed = @ \cup (turn[t].args.faults \cap {"store_trait_snapshot"}),
                            !.trait_result =
                                TraitApply(ctrl.trait_state, turn[t].memory_result,
                                           turn[t].identity_result, turn[t].entry.value_state,
                                           turn[t].args.affect_signal)]]
    /\ db' = StoreSnapshot(t)
    /\ UNCHANGED <<ctrl, hist, call>>

\* TraitDrift with apply updating the TraitState it was given instead of a
\* copy: the controller's state changes during the call
TraitDrift_in_place(t) ==
    /\ turn[t].pc = "trait"
    /\ turn' = [turn EXCEPT ![t] =
                  [@ EXCEPT !.pc = "trait_set",
                            !.trace = Stage(t, "trait"),
                            !.read_from = Readers(t, {"trait_state", "value_state"}),
                            !.trait_in_value = ctrl.value_state,
                            !.swallowed = @ \cup (turn[t].args.faults \cap {"store_trait_snapshot"}),
                            !.trait_result =
                                TraitApply(ctrl.trait_state, turn[t].memory_result,
                                           turn[t].identity_result, ctrl.value_state,
                                           turn[t].args.affect_signal)]]
    /\ ctrl' = [ctrl EXCEPT !.trait_state =
                   TraitApply(ctrl.trait_state, turn[t].memory_result,
                              turn[t].identity_result, ctrl.value_state,
                              turn[t].args.affect_signal).new_state]
    /\ db' = StoreSnapshot(t)
    /\ UNCHANGED <<hist, call>>

\* 4) trait_result = self._trait.apply(current=self._trait_state, ...,
\*    value_state=self._value_state, ..., db=self._db, user_id=uid)
TraitDrift(t) ==
    /\ turn[t].pc = "trait"
    /\ turn' = [turn EXCEPT ![t] =
                  [@ EXCEPT !.pc = "trait_set",
                            !.trace = Stage(t, "trait"),
                            !.read_from = Readers(t, {"trait_state", "value_state"}),
                            !.trait_in_value = ctrl.value_state,
                            !.swallowed = @ \cup (turn[t].args.faults \cap {"store_trait_snapshot"}),
                            !.trait_result =
                                TraitApply(ctrl.trait_state, turn[t].memory_result,
                                           turn[t].identity_result, ctrl.value_state,
                                           turn[t].args.affect_signal)]]
    /\ db' = StoreSnapshot(t)
    /\ UNCHANGED <<ctrl, hist, call>>

\*    self._trait_state = trait_result.new_state
TraitSet(t) ==
    /\ turn[t].pc = "trait_set"
    /\ ctrl' = [ctrl EXCEPT !.trait_state = turn[t].trait_result.new_state]
    /\ hist' = [hist EXCEPT !.owner.trait_state = turn[t].args.user_id]
    /\ turn' = [turn EXCEPT ![t].pc = "fsm"]
    /\ UNCHANGED <<db, call>>

\* 5) global_state_ctx = self._fsm.decide(..., value_state=self._value_state,
\*    trait_state=self._trait_state, ..., prev_state=self._prev_global_state)
Decide(t) ==
    /\ turn[t].pc = "fsm"
    /\ turn' = [turn EXCEPT ![t] =
                  [@ EXCEPT !.pc = "fsm_set",
                            !.trace = Stage(t, "fsm"),
                            !.read_from =
                                Readers(t, {"value_state", "trait_state", "prev_global_state"}),
                            !.fsm_in = [value_state |-> ctrl.value_state,
                                        trait_state |-> ctrl.trait_state],
                            !.global_state_ctx =
                                decide(turn[t].args.req, turn[t].memory_result,
                                       turn[t].identity_result, ctrl.value_state,
                                       ctrl.trait_state, turn[t].args.safety_flag,
                                       turn[t].args.overload_score, ctrl.prev_global_state)]]
    /\ UNCHANGED <<ctrl, db, hist, call>>

\* PrevSet storing the context's prev_state in place of its state
PrevSet_prev(t) ==
    /\ turn[t].pc = "fsm_set"
    /\ ctrl' = [ctrl EXCEPT !.prev_global_state = turn[t].global_state_ctx.prev_state]
    /\ hist' = [hist EXCEPT !.owner.prev_global_state = turn[t].args.user_id]
    /\ turn' = [turn EXCEPT ![t].pc = "llm"]
    /\ UNCHANGED <<db, call>>

\*    self._prev_global_state = global_state_ctx.state
PrevSet(t) ==
    /\ turn[t].pc = "fsm_set"
    /\ ctrl' = [ctrl EXCEPT !.prev_global_state = turn[t].global_state_ctx.state]
    /\ hist' = [hist EXCEPT !.owner.prev_global_state = turn[t].args.user_id]
    /\ turn' = [turn EXCEPT ![t].pc = "llm"]
    /\ UNCHANGED <<db, call>>

\* the fixed reply of generate's except branch
UnableReply == "unable_to_respond"

\* generate whose transport call is outside any try
generate_unguarded(outcome) ==
    IF outcome = "ok"
    THEN [raised |-> FALSE, reply |-> "reply"]
    ELSE [raised |-> TRUE, reply |-> None]

\* OpenAILLMClient.generate: the completion's content, or the fixed reply
\* when the transport call or the reading of its response raises
generate(outcome) ==
    CASE outcome = "ok"              -> [raised |-> FALSE, reply |-> "reply"]
      [] outcome = "transport_error" -> [raised |-> FALSE, reply |-> UnableReply]
      [] OTHER                       -> [raised |-> TRUE, reply |-> None]

\* 6) reply_text = self._call_llm(..., value_state=self._value_state,
\*    trait_state=self._trait_state, ...): generate returns a reply or
\*    raises; nothing catches it
CallLLM(t) ==
    /\ turn[t].pc = "llm"
    /\ turn' = [turn EXCEPT ![t] =
                  [@ EXCEPT !.pc = IF generate(turn[t].args.llm).raised THEN "raised" ELSE "persist",
                            !.trace = Stage(t, "llm"),
                            !.read_from = Readers(t, {"value_state", "trait_state"}),
                            !.llm_in = [value_state |-> ctrl.value_state,
                                        trait_state |-> ctrl.trait_state],
                            !.reply_text = generate(turn[t].args.llm).reply]]
    /\ UNCHANGED <<ctrl, db, hist, call>>

\* _store_episode: the embedding, episode_store.add and
\* db.store_episode_record each inside their own try/except Exception
_store_episode(t, d) ==
    LET f == turn[t].args.faults
        d1 == IF "add" \in f THEN d ELSE [d EXCEPT !.episode_adds = @ + 1]
    IN  IF "store_episode_record" \in f
        THEN d1
        ELSE [d1 EXCEPT !.episode_records = @ + 1]

\* StoreEpisode with episode_store.add outside any try: its exception
\* leaves handle_turn
StoreEpisode_add_unguarded(t) ==
    /\ turn[t].pc = "persist"
    /\ db' = _store_episode(t, db)
    /\ turn' = [turn EXCEPT ![t] =
                  [@ EXCEPT !.pc = IF "add" \in turn[t].args.faults THEN "raised" ELSE "done",
                            !.trace = Stage(t, "persist"),
                            !.swallowed = @ \cup (turn[t].args.faults
                                                  \cap {"encode", "store_episode_record"})]]
    /\ UNCHANGED <<ctrl, hist, call>>

\* 7) self._store_episode(...), then return PersonaTurnResult(...)
StoreEpisode(t) ==
    /\ turn[t].pc = "persist"
    /\ db' = _store_episode(t, db)
    /\ turn' = [turn EXCEPT ![t] =
                  [@ EXCEPT !.pc = "done",
                            !.trace = Stage(t, "persist"),
                            !.swallowed = @ \cup (turn[t].args.faults
                                                  \cap {"encode", "add", "store_episode_record"})]]
    /\ UNCHANGED <<ctrl, hist, call>>

\* handle_turn has returned its PersonaTurnResult, or its exception has
\* reached the caller; the thread is free for the next call
Return(t) ==
    /\ turn[t].pc \in {"done", "raised"}
    /\ hist' = [hist EXCEPT !.last =
                  IF turn[t].pc = "done"
                  THEN [kind |-> "returned", state |-> turn[t].global_state_ctx.state]
                  ELSE [kind |-> "raised", state |-> None]]
    /\ turn' = [turn EXCEPT ![t] = IdleTurn]
    /\ UNCHANGED <<ctrl, db, call>>

\* the stages of a turn that is under way
TurnStep(t) ==
    \/ SelectMemory(t)
    \/ BuildIdentity(t)
    \/ ValueDrift(t)
    \/ ValueSet(t)
    \/ TraitDrift(t)
    \/ TraitSet(t)
    \/ Decide(t)
    \/ PrevSet(t)
    \/ CallLLM(t)
    \/ StoreEpisode(t)

(***************************************************************************)
(* One caller, one call at a time.                                          *)
(***************************************************************************)
Begin == AllIdle /\ \E a \in TurnArgs : BeginTurn(MainThread, a)

Step == \E t \in Threads : TurnStep(t)

Finish == \E t \in Threads : Return(t)

Next == Begin \/ Step \/ Finish

Spec == Init /\ [][Next]_vars

(***************************************************************************)
(* Overlapping calls: server.py's request handlers run on a thread pool and *)
(* all call handle_turn on the one module-level persona_controller; neither *)
(* the handler nor handle_turn takes a lock.  Each thread makes one call.   *)
(***************************************************************************)
ConcArgs ==
    {a \in TurnArgs : /\ a.user_id = "u1"
                      /\ a.memory.ok
                      /\ a.llm = "ok"
                      /\ a.faults = {}}

BeginConc == \E t \in Threads : \E a \in ConcArgs : BeginTurn(t, a)

NextConc == BeginConc \/ Step

SpecConc == Init /\ [][NextConc]_vars

(***************************************************************************)
(* Direct calls of TraitDriftEngine.apply, each on the state the previous   *)
(* call returned.                                                           *)
(***************************************************************************)
Big == 400 * One

InitialTraitStates ==
    {TraitState0,
     [calm |-> One, empathy |-> -One, curiosity |-> One \div 2],
     [calm |-> -One, empathy |-> One, curiosity |-> -One],
     [calm |-> 3 * One, empathy |-> -5 * One, curiosity |-> One + 1],
     [calm |-> 1999000, empathy |-> -1999000, curiosity |-> 4000]}

ApplyMemories == {[pointers |-> n] : n \in {0, 1, 3}}

ApplyIdentities ==
    {[has_past_context |-> p, topic_neg |-> p, topic_label |-> None] : p \in BOOLEAN}

ApplyValueStates ==
    {ValueState0,
     [stability |-> 0, openness |-> -One, safety_bias |-> 0, user_alignment |-> 0],
     [stability |-> 0, openness |-> One, safety_bias |-> One, user_alignment |-> 0],
     [stability |-> 0, openness |-> Big, safety_bias |-> Big, user_alignment |-> 0]}

ApplyAffectSignals ==
    {NoAffect,
     [tension |-> One, warmth |-> -One, curiosity |-> One],
     [tension |-> -Big, warmth |-> Big, curiosity |-> -Big]}

InitTrait ==
    /\ ctrl = NewController([value_state |-> ValueState0, trait_state |-> TraitState0])
    /\ turn = [t \in Threads |-> IdleTurn]
    /\ db = NoDb
    /\ hist = NoHist(ctrl)
    /\ \E s \in InitialTraitStates :
          call = [op |-> "TraitState", n |-> 0,
                  out |-> [new_state |-> s, delta |-> TraitState0]]

ApplyCall ==
    /\ call.op \in {"TraitState", "apply"}
    /\ call.n < MaxApplyCalls
    /\ \E m \in ApplyMemories, i \in ApplyIdentities,
          v \in ApplyValueStates, a \in ApplyAffectSignals :
          call' = [op |-> "apply", n |-> call.n + 1,
                   in |-> [current |-> call.out.new_state, memory |-> m, identity |-> i,
                           value_state |-> v, affect_signal |-> a],
                   out |-> TraitApply(call.out.new_state, m, i, v, a)]
    /\ UNCHANGED <<ctrl, turn, db, hist>>

NextTrait == ApplyCall

SpecTrait == InitTrait /\ [][NextTrait]_vars

(***************************************************************************)
(* Direct calls of GlobalStateMachine.decide on a fresh system, next to the *)
(* calls the controller makes in its turns.                                 *)
(***************************************************************************)
DecideRequests == {[len |-> 0, neg |-> FALSE], [len |-> 400, neg |-> FALSE]}

DecideMemories == {[pointers |-> n] : n \in {0, 3, 5}}

\* identity objects with no topic_label attribute, with a plain one, with
\* one that holds an analysis marker
DecideIdentities ==
    {[has_past_context |-> FALSE, topic_neg |-> FALSE, topic_label |-> l] :
        l \in {None, "plain", "marker"}}

DecideValueStates ==
    {[stability |-> s, openness |-> 0, safety_bias |-> b, user_alignment |-> 0] :
        s \in {0, One}, b \in {0, _high_safety_bias_threshold - 1,
                               _high_safety_bias_threshold, One}}

DecideTraitStates ==
    {[calm |-> c, empathy |-> 0, curiosity |-> q] : c \in {-One, 0, One}, q \in {0, One}}

DecideSafetyFlags == {None, "none"} \cup SafetyFlags

DecideOverloadScores ==
    {NoScore, Score(_overload_threshold - 1), Score(_overload_threshold), Score(One)}

DecidePrevStates == {None} \cup PersonaGlobalState

DecideCall ==
    /\ call = NoCall
    /\ AllIdle
    /\ hist.turns = 0
    /\ \E r \in DecideRequests, m \in DecideMemories, i \in DecideIdentities,
          v \in DecideValueStates, tr \in DecideTraitStates,
          f \in DecideSafetyFlags, o \in DecideOverloadScores, p \in DecidePrevStates :
          call' = [op |-> "decide",
                   in |-> [req |-> r, memory |-> m, identity |-> i, value_state |-> v,
                           trait_state |-> tr, safety_flag |-> f, overload_score |-> o,
                           prev_state |-> p],
                   out |-> decide(r, m, i, v, tr, f, o, p)]
    /\ UNCHANGED <<ctrl, turn, db, hist>>

Turns == call = NoCall /\ Next

NextFSM == DecideCall \/ Turns

SpecFSM == Init /\ [][NextFSM]_vars

(***************************************************************************)
(* Properties                                                               *)
(***************************************************************************)

\* C1: after every TraitDriftEngine.apply call of any sequence of calls, from
\* any initial TraitState and with any turn inputs, each axis of new_state
\* lies in [-max_abs_value, +max_abs_value].
C1_TraitAxesWithinLimit ==
    call.op = "apply" =>
        \A k \in TraitAxes :
            /\ call.out.new_state[k] >= -_limit
            /\ call.out.new_state[k] <= _limit

\* a second call of a sequence whose influences push one axis above the
\* limit and another below it
C1_ClipActed ==
    /\ call.op = "apply"
    /\ call.n = 2
    /\ \E k \in TraitAxes :
          /\ call.in.current[k] + call.out.delta[k] > _limit
          /\ call.out.new_state[k] = _limit
    /\ \E k \in TraitAxes :
          /\ call.in.current[k] + call.out.delta[k] < -_limit
          /\ call.out.new_state[k] = -_limit

\* the safety condition of decide(): the flag is one of the three, or the
\* value state's safety_bias is at or above the threshold
SafetyCondition(in) ==
    \/ in.safety_flag \in {"escalated", "blocked", "intervened"}
    \/ in.value_state.safety_bias >= _high_safety_bias_threshold

\* overload_score is supplied and at or above the threshold
OverloadCondition(in) ==
    /\ in.overload_score # NoScore
    /\ in.overload_score[1] >= _overload_threshold

\* C2: whenever the safety condition holds, decide() returns SAFETY_LOCK,
\* whatever the overload score, the reflective score, the memory, the trait
\* state and prev_state are.
C2_SafetyFirst ==
    (call.op = "decide" /\ SafetyCondition(call.in)) => call.out.state = "SAFETY_LOCK"

\* the safety condition holds by the bias alone, against an overload score
\* above its threshold, a reflective score above the trigger and a previous
\* state NORMAL
C2_ConflictingSignals ==
    /\ call.op = "decide"
    /\ call.in.safety_flag = None
    /\ call.in.value_state.safety_bias = _high_safety_bias_threshold
    /\ OverloadCondition(call.in)
    /\ call.out.meta.reflective_score >= ReflectiveTrigger
    /\ call.in.prev_state = "NORMAL"
    /\ call.out.state = "SAFETY_LOCK"

\* C3: decide() never returns SILENT, also when prev_state is SILENT, and
\* over any sequence of handle_turn calls neither a turn's decided state nor
\* the controller's stored previous global state is SILENT.
C3_NeverSilent ==
    /\ call.op = "decide" =>
          call.out.state \in {"NORMAL", "REFLECTIVE", "OVERLOADED", "SAFETY_LOCK"}
    /\ ctrl.prev_global_state # "SILENT"
    /\ \A t \in Threads : turn[t].global_state_ctx.state # "SILENT"

\* decide() called with prev_state = SILENT and no rule firing
C3_FromSilent ==
    /\ call.op = "decide"
    /\ call.in.prev_state = "SILENT"
    /\ call.out.meta.reflective_score < 0
    /\ call.out.state = "NORMAL"

\* C4: decide() is total and evaluates by strict priority: SAFETY_LOCK exactly
\* when the safety condition holds; otherwise OVERLOADED exactly when the
\* overload score is supplied and >= the threshold; otherwise REFLECTIVE
\* exactly when the reflective score is >= 1.0; otherwise NORMAL; the state
\* does not depend on prev_state.
C4_StrictPriority ==
    call.op = "decide" =>
        call.out.state =
            IF SafetyCondition(call.in) THEN "SAFETY_LOCK"
            ELSE IF OverloadCondition(call.in) THEN "OVERLOADED"
            ELSE IF call.out.meta.reflective_score >= One THEN "REFLECTIVE"
            ELSE "NORMAL"

\* neither safety nor overload holds and the reflective score is exactly 1.0
C4_ReflectiveAtTrigger ==
    /\ call.op = "decide"
    /\ ~SafetyCondition(call.in)
    /\ ~OverloadCondition(call.in)
    /\ call.in.overload_score # NoScore
    /\ call.out.meta.reflective_score = One
    /\ call.in.prev_state = "OVERLOADED"
    /\ call.out.state = "REFLECTIVE"

\* C5: over a sequence of handle_turn calls on one controller, the
\* prev_state of the context a turn returns is the state the turn before it
\* returned, and None for the first turn, also when the state changes.
C5_PrevStateCarried ==
    \A t \in Threads :
        turn[t].pc = "done" =>
            /\ hist.last.kind = "none" => turn[t].global_state_ctx.prev_state = None
            /\ hist.last.kind = "returned" =>
                  turn[t].global_state_ctx.prev_state = hist.last.state

\* a turn that returns NORMAL after a turn that returned SAFETY_LOCK
C5_AcrossModeChange ==
    \E t \in Threads :
        /\ turn[t].pc = "done"
        /\ hist.last = [kind |-> "returned", state |-> "SAFETY_LOCK"]
        /\ turn[t].global_state_ctx.prev_state = "SAFETY_LOCK"
        /\ turn[t].global_state_ctx.state = "NORMAL"

\* the controller's documented flow
StageOrder == <<"memory", "identity", "value", "trait", "fsm", "llm", "persist">>

IsPrefix(p, q) == Len(p) <= Len(q) /\ SubSeq(q, 1, Len(p)) = p

\* C6: in every handle_turn the stages run once each in the order memory,
\* identity, value drift, trait drift, global state, response, write-back;
\* the trait drift receives this turn's value state, and the FSM and the
\* response generation receive this turn's value and trait states.
C6_StagesInOrder ==
    \A t \in Threads :
        /\ IsPrefix(turn[t].trace, StageOrder)
        /\ turn[t].pc = "done" =>
              /\ turn[t].trace = StageOrder
              /\ turn[t].trait_in_value = turn[t].value_result.new_state
              /\ turn[t].fsm_in = [value_state |-> turn[t].value_result.new_state,
                                   trait_state |-> turn[t].trait_result.new_state]
              /\ turn[t].llm_in = turn[t].fsm_in

\* a returned turn, after an earlier one, whose value drift and trait drift
\* both changed the state they started from
C6_FreshStatesUsed ==
    \E t \in Threads :
        /\ turn[t].pc = "done"
        /\ hist.last.kind = "returned"
        /\ turn[t].value_result.new_state # turn[t].entry.value_state
        /\ turn[t].trait_result.new_state # turn[t].entry.trait_state

\* handle_turn run alone from controller state c with arguments a: the
\* controller state it leaves
TurnOutcome(c, a) ==
    IF ~a.memory.ok
    THEN c
    ELSE LET m  == [pointers |-> a.memory.pointers]
             i  == build_identity_context(a.req, m)
             v  == ValueApply(c.value_state, a.value_infl).new_state
             tr == TraitApply(c.trait_state, m, i, v, a.affect_signal).new_state
             g  == decide(a.req, m, i, v, tr, a.safety_flag, a.overload_score,
                          c.prev_global_state).state
         IN  [value_state |-> v, trait_state |-> tr, prev_global_state |-> g]

\* C7: two overlapping handle_turn calls on the same controller leave the
\* state that running them one after the other, in some order, leaves.
C7_Serializable ==
    (\A t \in Threads : turn[t].pc = "done") =>
        \/ ctrl = TurnOutcome(TurnOutcome(hist.initial, turn["t1"].args), turn["t2"].args)
        \/ ctrl = TurnOutcome(TurnOutcome(hist.initial, turn["t2"].args), turn["t1"].args)

\* C8: the value state, trait state and previous global state a turn reads
\* were written by no turn of a different user.
C8_NoCrossUserReads ==
    \A t \in Threads : turn[t].read_from \subseteq {None, turn[t].args.user_id}

\* C9: a failure of the embedding call, episode_store.add,
\* store_episode_record or store_trait_snapshot does not abort the turn:
\* handle_turn raises only when the memory orchestrator or the LLM client
\* raised, and a returned turn carries the reply that was computed.
C9_PersistFailureSwallowed ==
    \A t \in Threads :
        /\ turn[t].pc = "raised" => (~turn[t].args.memory.ok \/ turn[t].args.llm = "raise")
        /\ turn[t].pc = "done" => turn[t].reply_text = generate(turn[t].args.llm).reply

\* a turn in which all four write-back operations raised and that returned
C9_AllWritesFailed ==
    \E t \in Threads :
        /\ turn[t].pc = "done"
        /\ turn[t].swallowed = PersistOps
        /\ turn[t].reply_text = "reply"
        /\ db = NoDb

\* C10: whenever handle_turn raises, the controller's value state, trait
\* state and previous global state are what they were before the turn.
C10_RaisedTurnLeavesState ==
    \A t \in Threads : turn[t].pc = "raised" => ctrl = turn[t].entry

\* C11: TraitDriftEngine.apply performs no read and no write on the
\* persistent store: the step of a turn that runs apply leaves the persona DB
\* as it was, snapshots being written by the caller only.
C11_ApplyLeavesStore ==
    [][\A t \in Threads :
          (turn[t].pc = "trait" /\ turn'[t].pc = "trait_set") => db' = db]_vars

\* the inputs of an apply call under which no influence rule fires
ZeroInfluence(in) ==
    /\ ~in.identity.has_past_context
    /\ ~in.identity.topic_neg
    /\ in.memory.pointers = 0
    /\ in.value_state.openness <= 0
    /\ in.value_state.safety_bias <= 0
    /\ in.affect_signal = NoAffect

Sign(x) == IF x > 0 THEN 1 ELSE IF x < 0 THEN -1 ELSE 0

\* C12: when every influence signal is zero, each TraitDriftEngine.apply
\* step of any sequence moves every axis toward 0 without overshooting: the
\* new value is 0 or has the sign of the old one, and its absolute value is
\* not larger.
C12_DecayOnly ==
    (call.op = "apply" /\ ZeroInfluence(call.in)) =>
        \A k \in TraitAxes :
            /\ Sign(call.out.new_state[k]) \in {0, Sign(call.in.current[k])}
            /\ Abs(call.out.new_state[k]) <= Abs(call.in.current[k])

\* the second of two decay-only steps, on a state with a positive and a
\* negative axis, each strictly nearer to 0 afterwards, under a value state
\* with negative openness
C12_SecondDecayStep ==
    /\ call.op = "apply"
    /\ call.n = 2
    /\ ZeroInfluence(call.in)
    /\ call.in.value_state.openness < 0
    /\ \E k \in TraitAxes :
          call.in.current[k] > 0 /\ call.out.new_state[k] \in 1..(call.in.current[k] - 1)
    /\ \E k \in TraitAxes :
          call.in.current[k] < 0 /\ -call.out.new_state[k] \in 1..(-call.in.current[k] - 1)

\* the smallest magnitude whose decay step is not rounded away
DecayGrain == One \div _decay

\* C13: in a turn with no affect signal and no memory hits (and no identity
\* influence), for any trait state and any value state, every axis is
\* strictly nearer to 0 after the turn than before it; stated for the axes
\* whose distance to 0 is large enough for the decay step to be representable.
C13_StrictlyNearerEachTurn ==
    (/\ call.op = "apply"
     /\ call.in.affect_signal = NoAffect
     /\ call.in.memory.pointers = 0
     /\ ~call.in.identity.has_past_context
     /\ ~call.in.identity.topic_neg) =>
        \A k \in TraitAxes :
            Abs(call.in.current[k]) >= DecayGrain =>
                Abs(call.out.new_state[k]) < Abs(call.in.current[k])

\* C14: for every apply call whose current state has an axis at 0, with a
\* value state inside [-1, 1] and any affect_signal map of floats, that axis
\* of new_state is strictly inside (-max_abs_value, +max_abs_value).
C14_NoSaturationInOneTurn ==
    (/\ call.op = "apply"
     /\ \A a \in ValueAxes : Abs(call.in.value_state[a]) <= One) =>
        \A k \in TraitAxes :
            call.in.current[k] = 0 => Abs(call.out.new_state[k]) < _limit

(***************************************************************************)
(* ValueDriftEngine.step (persona_core.persona_modules.value_drift_engine): *)
(* the reward-driven drift of a TraitVector around the center 0.5.          *)
(***************************************************************************)
MaxStepCalls == 2    \* consecutive ValueDriftEngine.step calls

\* the product of two fixed-point numbers, rounded to the nearest unit;
\* both are split at 1000 so that no intermediate exceeds 2^31
FMul(x, y) ==
    LET ax == Abs(x)
        ay == Abs(y)
        xh == ax \div 1000
        xl == ax % 1000
        yh == ay \div 1000
        yl == ay % 1000
        A  == xh * yh
        B  == xh * yl + xl * yh
        N  == (A % 2) * 1000000 + (B % 2000) * 1000 + xl * yl
        m  == A \div 2 + B \div 2000 + (N + One \div 2) \div One
    IN  IF (x >= 0) = (y >= 0) THEN m ELSE -m

\* ValueDriftConfig defaults: max_step = 0.02, min_step = 0.001, decay = 0.995
config_max_step == 40000
config_min_step == 2000
config_decay == 1990000

Half == One \div 2

\* center + (v - center) * decay
_decay_toward_center(v) == Half + FMul(v - Half, config_decay)

\* A reward is a RewardSignal object or a dict.  An absent key or attribute
\* is the empty tuple, a present one a 1-tuple.  trait_form tells whether
\* trait_reward is a TraitVector-like object or a dict.
NoTraitReward == [k \in {} |-> 0]

_get_global_reward(reward) ==
    IF reward.form = "object"
    THEN reward.global_reward[1]
    ELSE IF reward.global_reward # <<>> THEN reward.global_reward[1]
         ELSE IF reward.value # <<>> THEN reward.value[1]
         ELSE 0

\* the three axes of a trait reward, 0.0 where it has none
TraitRewardVals(tr) == [k \in TraitAxes |-> IF k \in DOMAIN tr THEN tr[k] ELSE 0]

\* object: getattr(tr, k, 0.0), which on a dict finds no attribute;
\* dict: reward["trait_reward"], else reward["meta"]["trait_reward"]
_get_trait_reward(reward) ==
    IF reward.form = "object"
    THEN IF reward.trait_reward = <<>>
         THEN TraitRewardVals(NoTraitReward)
         ELSE IF reward.trait_form = "vector"
              THEN TraitRewardVals(reward.trait_reward[1])
              ELSE TraitRewardVals(NoTraitReward)
    ELSE IF reward.trait_reward # <<>> /\ reward.trait_form = "dict"
         THEN TraitRewardVals(reward.trait_reward[1])
         ELSE IF reward.meta_trait_reward # <<>>
              THEN TraitRewardVals(reward.meta_trait_reward[1])
              ELSE TraitRewardVals(NoTraitReward)

\* min_s + (max_s - min_s) * min(|global_reward|, 1.0)
_compute_step_size(global_reward) ==
    LET mag == IF Abs(global_reward) > One THEN One ELSE Abs(global_reward)
    IN  config_min_step + FMul(config_max_step - config_min_step, mag)

\* step_size * global_reward * 0.3 + step_size * axis_r * 0.7
_drift_for_axis(axis_name, axis_value, global_reward, trait_reward, step_size) ==
    FMul(FMul(step_size, global_reward), 600000)
        + FMul(FMul(step_size, trait_reward[axis_name]), 1400000)

\* _clip01 without its second test: the upper end is not enforced
_clip01_lower_only(v) == IF v < 0 THEN 0 ELSE v

_clip01(v) == IF v < 0 THEN 0 ELSE IF v > One THEN One ELSE v

\* the value of each axis before the final clip
StepRaw(traits, reward) ==
    LET global_r  == _get_global_reward(reward)
        trait_r   == _get_trait_reward(reward)
        step_size == _compute_step_size(global_r)
    IN  [k \in TraitAxes |->
            LET d == _decay_toward_center(traits[k])
            IN  d + _drift_for_axis(k, d, global_r, trait_r, step_size)]

step(traits, reward) ==
    LET raw == StepRaw(traits, reward) IN [k \in TraitAxes |-> _clip01(raw[k])]

ObjectReward(g, tr, form) ==
    [form |-> "object", global_reward |-> <<g>>, value |-> <<g>>,
     trait_reward |-> tr, trait_form |-> form, meta_trait_reward |-> <<>>]

DictReward(g, v, tr, mtr) ==
    [form |-> "dict", global_reward |-> g, value |-> v,
     trait_reward |-> tr, trait_form |-> "dict", meta_trait_reward |-> mtr]

StepTraitRewards ==
    {[calm |-> One, empathy |-> -One, curiosity |-> 0],
     [calm |-> Big, empathy |-> -Big, curiosity |-> One]}

StepRewards ==
    {ObjectReward(g, <<>>, "vector") : g \in {0, One, -One, Big, -Big}}
    \cup {ObjectReward(One \div 2, <<tr>>, f) : tr \in StepTraitRewards, f \in {"vector", "dict"}}
    \cup {DictReward(<<>>, <<>>, <<>>, <<>>),
          DictReward(<<One>>, <<-One>>, <<>>, <<>>),
          DictReward(<<>>, <<-Big>>, <<>>, <<>>),
          DictReward(<<>>, <<>>, <<[calm |-> One]>>, <<[calm |-> -One]>>),
          DictReward(<<-One>>, <<>>, <<>>, <<[empathy |-> Big, curiosity |-> -Big]>>)}

InitialTraitVectors ==
    {[calm |-> 0, empathy |-> 0, curiosity |-> 0],
     [calm |-> Half, empathy |-> One, curiosity |-> 0],
     [calm |-> 3 * One, empathy |-> -2 * One, curiosity |-> One],
     [calm |-> 1990000, empathy |-> 10000, curiosity |-> Half + 1]}

InitStep ==
    /\ ctrl = NewController([value_state |-> ValueState0, trait_state |-> TraitState0])
    /\ turn = [t \in Threads |-> IdleTurn]
    /\ db = NoDb
    /\ hist = NoHist(ctrl)
    /\ \E s \in InitialTraitVectors :
          call = [op |-> "TraitVector", n |-> 0, out |-> s]

StepCall ==
    /\ call.op \in {"TraitVector", "step"}
    /\ call.n < MaxStepCalls
    /\ \E r \in StepRewards :
          call' = [op |-> "step", n |-> call.n + 1,
                   in |-> [traits |-> call.out, reward |-> r],
                   raw |-> StepRaw(call.out, r),
                   out |-> step(call.out, r)]
    /\ UNCHANGED <<ctrl, turn, db, hist>>

NextStep == StepCall

SpecStep == InitStep /\ [][NextStep]_vars

\* C15: for every input TraitVector and every reward signal, object or
\* dict, of any magnitude, every axis of the vector ValueDriftEngine.step
\* returns lies in [0, 1], after every step of any sequence of steps.
C15_StepAxesInUnitInterval ==
    call.op = "step" => \A k \in TraitAxes : call.out[k] >= 0 /\ call.out[k] <= One

\* a second step whose reward drives one axis above 1 and another below 0
\* before the clip
C15_StepClipActed ==
    /\ call.op = "step"
    /\ call.n = 2
    /\ \E k \in TraitAxes : call.raw[k] > One /\ call.out[k] = One
    /\ \E k \in TraitAxes : call.raw[k] < 0 /\ call.out[k] = 0

\* C17: during a turn the episode store is called only by the memory
\* orchestrator's stage: no step of any other stage of handle_turn changes
\* what the episode store holds.
C17_BackendOnlyFromOrchestrator ==
    [][\A t \in Threads :
          (turn[t].pc # "memory" /\ turn'[t] # turn[t]) =>
              db'.episode_adds = db.episode_adds]_vars

(***************************************************************************)
(* Memory selection: SelectiveRecall, AmbiguityResolver, MemoryOrchestrator *)
(* (persona_core/memory).                                                   *)
(*                                                                          *)
(* A text is modelled by what the embedding provider makes of it: `sim` is  *)
(* the similarity of its vector to the message's vector, `cut` that of its  *)
(* first 200 characters, `enc` whether encode/similarity raises on it.      *)
(* An episode is [episode_id, text]; episode_id 0 is a missing (falsy) id.  *)
(* The backend holds its episodes most recent first, as fetch_recent        *)
(* returns them.                                                            *)
(***************************************************************************)
MaxEpisodes == 6     \* episodes in the backend

\* SelectiveRecall.__init__ defaults
_top_k == 5
_min_score == 240000
_recency_weight == 60000
\* fetch_recent(limit=50)
FetchLimit == 50

Text(sim, cut, long, enc) == [sim |-> sim, cut |-> cut, long |-> long, enc |-> enc]

\* text[:200]
Cut200(text) ==
    IF text.long THEN Text(text.cut, text.cut, FALSE, text.enc) ELSE text

\* embed.encode(text): "raise", or the vector of the text
ZeroVec == [zero |-> TRUE, sim |-> 0]

encode(text) ==
    IF text.enc = "raise" THEN "raise" ELSE "vector"

\* cosine_similarity(req_vec, ep_vec): 0.0 when the request vector is the
\* zero vector, else the similarity of the two texts
similarity(req_vec, text) == IF req_vec.zero THEN 0 ELSE text.sim

\* req_vec of collect_candidates / _rerank: the message's vector, or the
\* zero vector when encode raised
RequestVector(req) ==
    IF req.enc = "raise" THEN ZeroVec ELSE [zero |-> FALSE, sim |-> One]

\* SafeSimilarity without its except branch taking effect: a failed
\* episode keeps the provider's score
SafeSimilarity_unguarded(req_vec, text) == similarity(req_vec, text)

\* try: encode(summary); similarity(req_vec, ep_vec)  except: 0.0
SafeSimilarity(req_vec, text) ==
    IF encode(text) = "raise" THEN 0 ELSE similarity(req_vec, text)

\* the first n elements of a list: seq[:n]
Take(seq, n) == SubSeq(seq, 1, IF Len(seq) < n THEN Len(seq) ELSE n)

\* sorted(..., key=score, reverse=True): stable, equal scores keep their
\* input order
RECURSIVE InsertDesc(_, _)
InsertDesc(x, sorted) ==
    IF sorted = <<>> THEN <<x>>
    ELSE IF Head(sorted).score >= x.score
         THEN <<Head(sorted)>> \o InsertDesc(x, Tail(sorted))
         ELSE <<x>> \o sorted

RECURSIVE SortDesc(_)
SortDesc(seq) ==
    IF seq = <<>> THEN <<>>
    ELSE InsertDesc(seq[Len(seq)], SortDesc(SubSeq(seq, 1, Len(seq) - 1)))

\* the recency factor added without the recency_weight scaling
RecencyBonus_unweighted(total, idx) == MulFrac(One, total - idx, total)

\* recency_weight * (total - idx) / total, idx counted from 0
RecencyBonus(total, idx) == MulFrac(_recency_weight, total - idx, total)

\* the candidate built from the episode at position i (from 1) of the
\* fetched list
CandidateAt(episodes, i, req_vec, use_recency) ==
    LET ep    == episodes[i]
        total == IF Len(episodes) = 0 THEN 1 ELSE Len(episodes)
        sim   == SafeSimilarity(req_vec, ep.text)
    IN  [episode_id |-> ep.episode_id,
         text       |-> ep.text,
         similarity |-> sim,
         score      |-> IF use_recency THEN sim + RecencyBonus(total, i - 1) ELSE sim]

\* fetch_recent called with no try around it: its exception propagates
fetch_recent_unguarded(backend) ==
    IF backend.fetch = "raise"
    THEN [raised |-> TRUE, episodes |-> <<>>, fetches |-> 1]
    ELSE [raised |-> FALSE, episodes |-> Take(backend.episodes, FetchLimit), fetches |-> 1]

\* try: episodes = backend.fetch_recent(limit=50)  except: return []
fetch_recent(backend) ==
    IF backend.fetch = "raise"
    THEN [raised |-> FALSE, episodes |-> <<>>, fetches |-> 1]
    ELSE [raised |-> FALSE, episodes |-> Take(backend.episodes, FetchLimit), fetches |-> 1]

\* collect_candidates: the candidates, with the backend reads issued and
\* the number of episodes scored
collect_candidates(backend, req, use_recency) ==
    LET f        == fetch_recent(backend)
        episodes == f.episodes
        req_vec  == RequestVector(req)
        all      == [i \in 1..Len(episodes) |->
                        CandidateAt(episodes, i, req_vec, use_recency)]
        HasId(c) == c.episode_id # 0
    IN  [raised     |-> f.raised,
         candidates |-> SelectSeq(all, HasId),
         fetches    |-> f.fetches,
         scored     |-> Len(episodes)]

\* the MemoryPointer made of a candidate
PointerOf(c) ==
    [episode_id |-> c.episode_id, source |-> "episodic",
     score |-> c.score, summary |-> Cut200(c.text)]

\* rank_and_select without the threshold filter
rank_and_select_unfiltered(candidates) ==
    LET selected == Take(SortDesc(candidates), _top_k)
    IN  [i \in 1..Len(selected) |-> PointerOf(selected[i])]

\* rank_and_select: sort by score descending, drop below min_score, top-K
rank_and_select(candidates) ==
    LET AboveMin(c) == c.score >= _min_score
        selected    == Take(SelectSeq(SortDesc(candidates), AboveMin), _top_k)
    IN  [i \in 1..Len(selected) |-> PointerOf(selected[i])]

\* recall(req): the pointers; with what collect_candidates did
recall(backend, req, use_recency) ==
    LET c == collect_candidates(backend, req, use_recency)
    IN  [raised     |-> c.raised,
         pointers   |-> IF c.raised THEN <<>> ELSE rank_and_select(c.candidates),
         candidates |-> c.candidates,
         fetches    |-> c.fetches,
         scored     |-> c.scored]

(***************************************************************************)
(* Direct calls of SelectiveRecall.recall on a backend filled episode by    *)
(* episode.                                                                 *)
(***************************************************************************)
\* the texts of the stored summaries: similar (0.5), at the threshold
\* (0.12), just below it (0.10), and one the provider fails on
EpisodeTexts ==
    {Text(One \div 2, One \div 2, FALSE, "ok"),
     Text(_min_score, _min_score, FALSE, "ok"),
     Text(One \div 10, One \div 10, FALSE, "ok"),
     Text(One \div 2, One \div 2, FALSE, "raise")}

\* a message the provider encodes, and one it fails on
RecallRequests == {[enc |-> e, marker |-> FALSE, empty |-> FALSE] : e \in {"ok", "raise"}}

InitRecall ==
    /\ ctrl = NewController([value_state |-> ValueState0, trait_state |-> TraitState0])
    /\ turn = [t \in Threads |-> IdleTurn]
    /\ db = NoDb
    /\ hist = NoHist(ctrl)
    /\ call = [op |-> "backend", episodes |-> <<>>]

\* EpisodeStore.add: the new episode is the most recent one; an episode
\* stored without an id has episode_id 0
AddEpisode ==
    /\ call.op = "backend"
    /\ Len(call.episodes) < MaxEpisodes
    /\ \E x \in EpisodeTexts, id \in {0, Len(call.episodes) + 1} :
          /\ (id = 0) => (x.sim = One \div 2 /\ x.enc = "ok")
          /\ call' = [call EXCEPT !.episodes = <<[episode_id |-> id, text |-> x]>> \o @]
    /\ UNCHANGED <<ctrl, turn, db, hist>>

RecallCall ==
    /\ call.op = "backend"
    /\ \E req \in RecallRequests, f \in {"ok", "raise"}, r \in BOOLEAN :
          LET backend == [episodes |-> call.episodes, fetch |-> f]
          IN  call' = [op |-> "recall",
                       in |-> [backend |-> backend, req |-> req, use_recency |-> r],
                       out |-> recall(backend, req, r)]
    /\ UNCHANGED <<ctrl, turn, db, hist>>

NextRecall == AddEpisode \/ RecallCall

SpecRecall == InitRecall /\ [][NextRecall]_vars

\* C18: when the backend's fetch_recent raises, recall returns the empty
\* list, no exception reaches the caller, and the read was issued once.
C18_FetchFailureYieldsEmpty ==
    (call.op = "recall" /\ call.in.backend.fetch = "raise") =>
        /\ ~call.out.raised
        /\ call.out.pointers = <<>>
        /\ call.out.fetches = 1

\* fetch_recent raised on a backend holding an episode that a working read
\* would have selected
C18_FetchRaisedOnUsefulBackend ==
    /\ call.op = "recall"
    /\ call.in.backend.fetch = "raise"
    /\ ~call.out.raised
    /\ call.out.pointers = <<>>
    /\ recall([call.in.backend EXCEPT !.fetch = "ok"], call.in.req,
              call.in.use_recency).pointers # <<>>

\* C19: when encode or similarity raises for an episode, or encode raises
\* for the message, that episode's similarity is 0.0, every fetched episode
\* is still scored, and no exception leaves recall.
C19_VectorFailureScoresZero ==
    (call.op = "recall" /\ call.in.backend.fetch = "ok") =>
        /\ ~call.out.raised
        /\ call.out.scored = Len(call.in.backend.episodes)
        /\ \A i \in 1..Len(call.out.candidates) :
              LET c == call.out.candidates[i]
              IN  (c.text.enc = "raise" \/ call.in.req.enc = "raise") => c.similarity = 0

\* the provider failed on the most recent episode, and an older episode was
\* still scored and selected
C19_LaterEpisodeStillScored ==
    /\ call.op = "recall"
    /\ call.in.backend.fetch = "ok"
    /\ call.in.req.enc = "ok"
    /\ Len(call.in.backend.episodes) >= 2
    /\ call.in.backend.episodes[1].text.enc = "raise"
    /\ call.in.backend.episodes[1].episode_id # 0
    /\ \E i \in 1..Len(call.out.pointers) :
          call.out.pointers[i].episode_id = call.in.backend.episodes[2].episode_id
    /\ \A i \in 1..Len(call.out.pointers) :
          call.out.pointers[i].episode_id # call.in.backend.episodes[1].episode_id

\* C20: the list recall returns has at most similarity_top_k pointers, is
\* ordered by score descending, holds only pointers whose final score is
\* >= min_score_threshold, and holds the highest-scoring candidates: no
\* omitted candidate has a final score above that of an included pointer.
C20_TopKByScore ==
    call.op = "recall" =>
        LET ps  == call.out.pointers
            ids == {ps[i].episode_id : i \in 1..Len(ps)}
        IN  /\ Len(ps) <= _top_k
            /\ \A i \in 1..Len(ps) : ps[i].score >= _min_score
            /\ \A i, j \in 1..Len(ps) : i < j => ps[i].score >= ps[j].score
            /\ \A n \in 1..Len(call.out.candidates) :
                  LET c == call.out.candidates[n]
                  IN  c.episode_id \notin ids =>
                          \A i \in 1..Len(ps) : c.score <= ps[i].score

\* six candidates: five pointers of differing scores are returned, and the
\* sixth candidate, at or above the threshold, is cut by top-K
C20_CutByTopK ==
    /\ call.op = "recall"
    /\ Len(call.out.pointers) = _top_k
    /\ call.out.pointers[1].score > call.out.pointers[_top_k].score
    /\ LET ids == {call.out.pointers[i].episode_id : i \in 1..Len(call.out.pointers)}
       IN  /\ \E n \in 1..Len(call.out.candidates) :
                 /\ call.out.candidates[n].episode_id \notin ids
                 /\ call.out.candidates[n].score >= _min_score
           /\ Len(call.out.candidates) = _top_k + 1

(***************************************************************************)
(* AmbiguityResolver                                                        *)
(***************************************************************************)
\* AmbiguityResolver.__init__ defaults
_min_sim == 300000
_max_resolve == 3

\* _detect_ambiguity answering True for every message
_detect_ambiguity_always(req) == TRUE

\* not message -> False; else any(token in message.lower())
_detect_ambiguity(req) == ~req.empty /\ req.marker

\* the pointer kept with the score it came with
Rescored_keep_score(p, sim) == p

\* the pointer with its score replaced by the recomputed similarity
Rescored(p, sim) ==
    [episode_id |-> p.episode_id, source |-> p.source, score |-> sim, summary |-> p.summary]

\* _rerank without the min_similarity threshold
_rerank_no_threshold(req, pointers) ==
    LET req_vec  == RequestVector(req)
        all      == [i \in 1..Len(pointers) |->
                        Rescored(pointers[i], SafeSimilarity(req_vec, pointers[i].summary))]
    IN  SortDesc(all)

\* _rerank: recompute each pointer's similarity from its summary, drop those
\* below min_similarity, sort descending
_rerank(req, pointers) ==
    LET req_vec  == RequestVector(req)
        all      == [i \in 1..Len(pointers) |->
                        Rescored(pointers[i], SafeSimilarity(req_vec, pointers[i].summary))]
        Enough(p) == p.score >= _min_sim
    IN  SortDesc(SelectSeq(all, Enough))

\* resolve listing every input pointer as discarded on the reranking path
resolve_discard_all(req, pointers) ==
    IF ~_detect_ambiguity(req)
    THEN [resolved_pointers  |-> pointers,
          discarded_pointers |-> <<>>,
          reason             |-> "no ambiguity detected",
          rescored           |-> 0]
    ELSE LET reranked == _rerank(req, pointers)
         IN  IF reranked = <<>>
             THEN [resolved_pointers  |-> <<>>,
                   discarded_pointers |-> pointers,
                   reason             |-> "ambiguity detected but no relevant memory",
                   rescored           |-> Len(pointers)]
             ELSE [resolved_pointers  |-> Take(reranked, _max_resolve),
                   discarded_pointers |-> pointers,
                   reason             |-> "ambiguity resolved by semantic reranking",
                   rescored           |-> Len(pointers)]

\* resolve: the resolution, with the number of pointers the similarity
\* provider was asked about
resolve(req, pointers) ==
    IF ~_detect_ambiguity(req)
    THEN [resolved_pointers  |-> pointers,
          discarded_pointers |-> <<>>,
          reason             |-> "no ambiguity detected",
          rescored           |-> 0]
    ELSE LET reranked == _rerank(req, pointers)
             top      == Take(reranked, _max_resolve)
             ids      == {top[i].episode_id : i \in 1..Len(top)}
             Dropped(p) == p.episode_id \notin ids
         IN  IF reranked = <<>>
             THEN [resolved_pointers  |-> <<>>,
                   discarded_pointers |-> pointers,
                   reason             |-> "ambiguity detected but no relevant memory",
                   rescored           |-> Len(pointers)]
             ELSE [resolved_pointers  |-> top,
                   discarded_pointers |-> SelectSeq(pointers, Dropped),
                   reason             |-> "ambiguity resolved by semantic reranking",
                   rescored           |-> Len(pointers)]

(***************************************************************************)
(* EpisodeMerger.merge (persona_core.memory.episode_merger), by its         *)
(* contract: the pointers it incorporated and a summary, None for no        *)
(* pointers.                                                                *)
(***************************************************************************)
merge(req, pointers) ==
    [used_pointers |-> pointers,
     summary       |-> IF pointers = <<>> THEN None ELSE "summary"]

(***************************************************************************)
(* MemoryOrchestrator                                                       *)
(***************************************************************************)
\* the keyword arguments PersonaController._select_memory adds
ControllerKwargs == {"user_id", "episode_store", "persona_db"}

EmptySelection(calls, recalled, resolved) ==
    [raised |-> FALSE, pointers |-> <<>>, merged_summary |-> None,
     calls |-> calls, recalled |-> recalled, resolved |-> resolved]

\* self._recall.recall(req=req, **backend_kwargs): recall(self, req) takes
\* no other keyword, so any extra one is a TypeError
recall_with(backend, req, use_recency, backend_kwargs) ==
    IF backend_kwargs # {}
    THEN [raised |-> TRUE, pointers |-> <<>>]
    ELSE LET r == recall(backend, req, use_recency)
         IN  [raised |-> r.raised, pointers |-> r.pointers]

\* select_for_request without its second early return: the merger is called
\* on whatever the resolver left
select_for_request_no_second_return(backend, req, use_recency, backend_kwargs) ==
    LET r == recall_with(backend, req, use_recency, backend_kwargs)
    IN  IF r.raised
        THEN [raised |-> TRUE, pointers |-> <<>>, merged_summary |-> None,
              calls |-> <<"recall">>, recalled |-> <<>>, resolved |-> <<>>]
        ELSE IF r.pointers = <<>>
        THEN EmptySelection(<<"recall">>, <<>>, <<>>)
        ELSE LET a == resolve(req, r.pointers)
                 m == merge(req, a.resolved_pointers)
             IN  [raised |-> FALSE, pointers |-> m.used_pointers,
                  merged_summary |-> m.summary,
                  calls |-> <<"recall", "resolve", "merge">>,
                  recalled |-> r.pointers, resolved |-> a.resolved_pointers]

\* select_for_request: recall, resolve, merge, with the two early returns;
\* calls is the sequence of components invoked
select_for_request(backend, req, use_recency, backend_kwargs) ==
    LET r == recall_with(backend, req, use_recency, backend_kwargs)
    IN  IF r.raised
        THEN [raised |-> TRUE, pointers |-> <<>>, merged_summary |-> None,
              calls |-> <<"recall">>, recalled |-> <<>>, resolved |-> <<>>]
        ELSE IF r.pointers = <<>>
        THEN EmptySelection(<<"recall">>, <<>>, <<>>)
        ELSE LET a == resolve(req, r.pointers)
             IN  IF a.resolved_pointers = <<>>
                 THEN EmptySelection(<<"recall", "resolve">>, r.pointers, <<>>)
                 ELSE LET m == merge(req, a.resolved_pointers)
                      IN  [raised |-> FALSE, pointers |-> m.used_pointers,
                           merged_summary |-> m.summary,
                           calls |-> <<"recall", "resolve", "merge">>,
                           recalled |-> r.pointers, resolved |-> a.resolved_pointers]

\* select(req, **backend_kwargs): forwards to select_for_request
select(backend, req, use_recency, backend_kwargs) ==
    select_for_request(backend, req, use_recency, backend_kwargs)

(***************************************************************************)
(* Direct calls of MemoryOrchestrator.select_for_request on a backend       *)
(* filled episode by episode.                                               *)
(***************************************************************************)
SelectRequests ==
    {[enc |-> e, marker |-> m, empty |-> FALSE] : e \in {"ok", "raise"}, m \in BOOLEAN}

SelectCall ==
    /\ call.op = "backend"
    /\ \E req \in SelectRequests, kw \in {{}, ControllerKwargs} :
          LET backend == [episodes |-> call.episodes, fetch |-> "ok"]
          IN  call' = [op |-> "select",
                       in |-> [backend |-> backend, req |-> req, backend_kwargs |-> kw],
                       out |-> select_for_request(backend, req, TRUE, kw)]
    /\ UNCHANGED <<ctrl, turn, db, hist>>

NextSelect == AddEpisode \/ SelectCall

SpecSelect == InitRecall /\ [][NextSelect]_vars

\* C16: select_for_request short-circuits.  If recall returns no pointers,
\* neither the resolver nor the merger is invoked; if the resolver returns
\* no resolved pointers, the merger is not invoked; in both cases the result
\* has pointers = [] and merged_summary = None.  The merger is invoked only
\* after the resolver returned a non-empty list.
C16_ShortCircuit ==
    (call.op = "select" /\ ~call.out.raised) =>
        /\ call.out.recalled = <<>> =>
              /\ call.out.calls = <<"recall">>
              /\ call.out.pointers = <<>>
              /\ call.out.merged_summary = None
        /\ (call.out.recalled # <<>> /\ call.out.resolved = <<>>) =>
              /\ call.out.calls = <<"recall", "resolve">>
              /\ call.out.pointers = <<>>
              /\ call.out.merged_summary = None
        /\ (\E i \in 1..Len(call.out.calls) : call.out.calls[i] = "merge") =>
              /\ call.out.resolved # <<>>
              /\ call.out.calls = <<"recall", "resolve", "merge">>

\* recall selected pointers and the resolver, on a message with a vague
\* reference, discarded every one of them
C16_ResolverDiscardedAll ==
    /\ call.op = "select"
    /\ ~call.out.raised
    /\ call.in.req.marker
    /\ Len(call.out.recalled) >= 2
    /\ call.out.resolved = <<>>
    /\ call.out.calls = <<"recall", "resolve">>

(***************************************************************************)
(* The order of the list fetch_recent returns.                              *)
(***************************************************************************)
\* the episode_ids of a list of MemoryPointers
PointerIds(pointers) == {pointers[i].episode_id : i \in 1..Len(pointers)}

\* the list with the elements at positions i and i + 1 exchanged; every
\* permutation of a list is a chain of such exchanges
SwapAt(seq, i) ==
    [k \in 1..Len(seq) |->
        IF k = i THEN seq[i + 1] ELSE IF k = i + 1 THEN seq[i] ELSE seq[k]]

\* C21: for a fixed similarity function and a fixed set of episodes, recall
\* returns the same set of episode_ids for every permutation of the list
\* fetch_recent returned (stated for the exchange of two neighbours, which
\* generates every permutation).
C21_OrderInsensitive ==
    (call.op = "recall" /\ call.in.backend.fetch = "ok") =>
        \A i \in 1..(Len(call.in.backend.episodes) - 1) :
            LET permuted == [call.in.backend EXCEPT !.episodes = SwapAt(@, i)]
            IN  PointerIds(recall(permuted, call.in.req, call.in.use_recency).pointers)
                    = PointerIds(call.out.pointers)

(***************************************************************************)
(* The two EpisodeStore classes of the repository as the backend of        *)
(* SelectiveRecall: persona_core.memory.episode_store and                   *)
(* aei.episodic_memory.epmem.                                               *)
(***************************************************************************)
MaxStored == 3       \* episodes in a store
MaxTime == 3         \* distinct timestamps

StoreKinds == {"persona_core", "aei"}

\* EpisodeStore.add (both classes): raw.append(episode);
\* raw.sort(key=timestamp), a stable ascending sort of a sorted list
store_add(raw, ep) ==
    LET NotLater(e) == e.timestamp <= ep.timestamp
        Later(e)    == e.timestamp > ep.timestamp
    IN  SelectSeq(raw, NotLater) \o <<ep>> \o SelectSeq(raw, Later)

\* eps.sort(key=timestamp, reverse=True): stable, equal timestamps keep
\* their stored order
RECURSIVE InsertByTimeDesc(_, _)
InsertByTimeDesc(x, sorted) ==
    IF sorted = <<>> THEN <<x>>
    ELSE IF Head(sorted).timestamp >= x.timestamp
         THEN <<Head(sorted)>> \o InsertByTimeDesc(x, Tail(sorted))
         ELSE <<x>> \o sorted

RECURSIVE SortByTimeDesc(_)
SortByTimeDesc(seq) ==
    IF seq = <<>> THEN <<>>
    ELSE InsertByTimeDesc(seq[Len(seq)], SortByTimeDesc(SubSeq(seq, 1, Len(seq) - 1)))

\* the last n elements of a list: seq[-n:]
LastN(seq, n) ==
    IF Len(seq) <= n THEN seq ELSE SubSeq(seq, Len(seq) - n + 1, Len(seq))

\* EpisodeStore.fetch_recent(limit=limit) of the two classes
store_fetch_recent(kind, raw, limit) ==
    IF kind = "persona_core"
    THEN Take(SortByTimeDesc(raw), limit)
    ELSE LastN(raw, limit)

\* summaries of the stored episodes: similar (0.5) and just below the
\* threshold (0.10)
StoreTexts ==
    {Text(One \div 2, One \div 2, FALSE, "ok"),
     Text(One \div 10, One \div 10, FALSE, "ok")}

InitStore ==
    /\ ctrl = NewController([value_state |-> ValueState0, trait_state |-> TraitState0])
    /\ turn = [t \in Threads |-> IdleTurn]
    /\ db = NoDb
    /\ hist = NoHist(ctrl)
    /\ \E k \in StoreKinds : call = [op |-> "store", kind |-> k, raw |-> <<>>]

StoreAdd ==
    /\ call.op = "store"
    /\ Len(call.raw) < MaxStored
    /\ \E x \in StoreTexts, ts \in 1..MaxTime :
          call' = [call EXCEPT !.raw =
                      store_add(@, [episode_id |-> Len(call.raw) + 1,
                                    timestamp  |-> ts,
                                    text       |-> x])]
    /\ UNCHANGED <<ctrl, turn, db, hist>>

\* SelectiveRecall.recall with the store as its memory_backend
StoreRecall ==
    /\ call.op = "store"
    /\ \E req \in RecallRequests, r \in BOOLEAN :
          LET backend == [episodes |-> store_fetch_recent(call.kind, call.raw, FetchLimit),
                          fetch    |-> "ok"]
          IN  call' = [op   |-> "store_recall",
                       kind |-> call.kind,
                       raw  |-> call.raw,
                       in   |-> [backend |-> backend, req |-> req, use_recency |-> r],
                       out  |-> recall(backend, req, r)]
    /\ UNCHANGED <<ctrl, turn, db, hist>>

NextStore == StoreAdd \/ StoreRecall

SpecStore == InitStore /\ [][NextStore]_vars

\* the timestamp of the stored episode with the given id
TimeOf(raw, id) ==
    (CHOOSE e \in {raw[i] : i \in 1..Len(raw)} : e.episode_id = id).timestamp

\* the position of the pointer with the given id, 0 when it is not returned
RankOf(pointers, id) ==
    IF \E i \in 1..Len(pointers) : pointers[i].episode_id = id
    THEN CHOOSE i \in 1..Len(pointers) : pointers[i].episode_id = id
    ELSE 0

\* two candidates of one recall with equal similarity, a the more recent
MoreRecentOfEqual(a, b) ==
    /\ a.similarity = b.similarity
    /\ TimeOf(call.raw, a.episode_id) > TimeOf(call.raw, b.episode_id)

\* recall ran with recency bias on a store
RecencyRecall == call.op = "store_recall" /\ call.in.use_recency

\* C22: with recency bias enabled, of two episodes fetch_recent returned
\* that have equal similarity to the message, the more recent one gets a
\* strictly higher final score, and ranks before the older one when both
\* are returned.
C22_MoreRecentWins ==
    RecencyRecall =>
        \A i, j \in 1..Len(call.out.candidates) :
            LET a == call.out.candidates[i]
                b == call.out.candidates[j]
            IN  MoreRecentOfEqual(a, b) =>
                    /\ a.score > b.score
                    /\ (RankOf(call.out.pointers, a.episode_id) > 0
                            /\ RankOf(call.out.pointers, b.episode_id) > 0)
                         => RankOf(call.out.pointers, a.episode_id)
                                < RankOf(call.out.pointers, b.episode_id)

\* C22 on the store server.py wires in (persona_core.memory.episode_store)
C22_MoreRecentWins_persona_core ==
    (call.op = "store_recall" /\ call.kind = "persona_core") => C22_MoreRecentWins

(***************************************************************************)
(* Direct calls of AmbiguityResolver.resolve on a pointer list as           *)
(* SelectiveRecall returns it: distinct episode_ids, scores descending.     *)
(***************************************************************************)
MaxPointers == 4     \* pointers handed to resolve

\* final scores of the recall stage (similarity plus recency bonus)
PointerScores == {One \div 2, 130 * (One \div 1000)}

\* summaries: similarity 0.5, 0.3 and 0.10 to the message, and one the
\* provider fails on
SummaryTexts ==
    {Text(One \div 2, One \div 2, FALSE, "ok"),
     Text(3 * (One \div 10), 3 * (One \div 10), FALSE, "ok"),
     Text(One \div 10, One \div 10, FALSE, "ok"),
     Text(One \div 2, One \div 2, FALSE, "raise")}

\* messages with and without an ambiguity marker, encodable or not, and
\* the empty message
ResolveRequests ==
    {[enc |-> e, marker |-> m, empty |-> FALSE] : e \in {"ok", "raise"}, m \in BOOLEAN}
        \cup {[enc |-> "ok", marker |-> FALSE, empty |-> TRUE]}

InitResolve ==
    /\ ctrl = NewController([value_state |-> ValueState0, trait_state |-> TraitState0])
    /\ turn = [t \in Threads |-> IdleTurn]
    /\ db = NoDb
    /\ hist = NoHist(ctrl)
    /\ call = [op |-> "pointers", pointers |-> <<>>]

AddPointer ==
    /\ call.op = "pointers"
    /\ Len(call.pointers) < MaxPointers
    /\ \E s \in PointerScores, x \in SummaryTexts :
          /\ call.pointers # <<>> => call.pointers[Len(call.pointers)].score >= s
          /\ call' = [call EXCEPT !.pointers =
                         Append(@, [episode_id |-> Len(call.pointers) + 1,
                                    source     |-> "episodic",
                                    score      |-> s,
                                    summary    |-> x])]
    /\ UNCHANGED <<ctrl, turn, db, hist>>

ResolveCall ==
    /\ call.op = "pointers"
    /\ \E req \in ResolveRequests :
          call' = [op  |-> "resolve",
                   in  |-> [req |-> req, pointers |-> call.pointers],
                   out |-> resolve(req, call.pointers)]
    /\ UNCHANGED <<ctrl, turn, db, hist>>

NextResolve == AddPointer \/ ResolveCall

SpecResolve == InitResolve /\ [][NextResolve]_vars

\* the message of the call contains an ambiguity marker
MarkerCall == call.op = "resolve" /\ call.in.req.marker /\ ~call.in.req.empty

\* the provider yields a similarity of at least min_similarity for the
\* pointer's summary
Relevant(req, p) ==
    req.enc = "ok" /\ p.summary.enc = "ok" /\ p.summary.sim >= _min_sim

\* C23: for a message without ambiguity marker (the empty message
\* included) resolve returns the input pointers unchanged, in order and
\* with their scores, discards none, and asks the similarity provider about
\* no pointer.
C23_NoMarkerPassThrough ==
    (call.op = "resolve" /\ ~MarkerCall) =>
        /\ call.out.resolved_pointers = call.in.pointers
        /\ call.out.discarded_pointers = <<>>
        /\ call.out.rescored = 0

\* the empty message on a full list that reranking would have cut
C23_EmptyMessage ==
    /\ call.op = "resolve"
    /\ call.in.req.empty
    /\ Len(call.in.pointers) = MaxPointers
    /\ \E i \in 1..Len(call.in.pointers) : ~Relevant(call.in.req, call.in.pointers[i])

\* C24: for a message with an ambiguity marker every resolved pointer
\* carries the freshly recomputed similarity of its summary, which is at
\* least min_similarity; the list is sorted by it descending and has at
\* most max_resolve entries.
C24_ResolvedRescored ==
    MarkerCall =>
        LET r == call.out.resolved_pointers
        IN  /\ Len(r) <= _max_resolve
            /\ \A i \in 1..Len(r) :
                  /\ Relevant(call.in.req, r[i])
                  /\ r[i].score = r[i].summary.sim
                  /\ r[i].score >= _min_sim
            /\ \A i, j \in 1..Len(r) : i < j => r[i].score >= r[j].score

\* reranking reordered the input, replaced a score, and cut at max_resolve
C24_RerankedAndCut ==
    /\ MarkerCall
    /\ Len(call.out.resolved_pointers) = _max_resolve
    /\ \E i \in 1..Len(call.in.pointers) :
          Relevant(call.in.req, call.in.pointers[i])
              /\ call.in.pointers[i].episode_id
                     \notin PointerIds(call.out.resolved_pointers)
    /\ \E i \in 1..Len(call.in.pointers) :
          /\ call.in.pointers[i].episode_id = call.out.resolved_pointers[1].episode_id
          /\ i > 1
          /\ call.in.pointers[i].score # call.out.resolved_pointers[1].score

\* C25: for a message with an ambiguity marker, when no input pointer
\* attains min_similarity (every encode or similarity call failing
\* included), resolve returns normally with no resolved pointer, every
\* input pointer discarded, and the reason "no relevant memory".
C25_NothingRelevant ==
    (MarkerCall /\ \A i \in 1..Len(call.in.pointers) :
                       ~Relevant(call.in.req, call.in.pointers[i])) =>
        /\ call.out.resolved_pointers = <<>>
        /\ call.out.discarded_pointers = call.in.pointers
        /\ call.out.reason = "ambiguity detected but no relevant memory"

\* nothing relevant among a full list holding a failing and a low summary
C25_AllBelowOrFailing ==
    /\ MarkerCall
    /\ call.in.req.enc = "ok"
    /\ Len(call.in.pointers) = MaxPointers
    /\ \A i \in 1..Len(call.in.pointers) : ~Relevant(call.in.req, call.in.pointers[i])
    /\ \E i \in 1..Len(call.in.pointers) : call.in.pointers[i].summary.enc = "raise"
    /\ \E i \in 1..Len(call.in.pointers) : call.in.pointers[i].summary.enc = "ok"

\* C26: resolve partitions its input: the episode_id of every input
\* pointer is in exactly one of resolved_pointers and discarded_pointers,
\* and neither list holds an id that was not in the input.
C26_Partition ==
    call.op = "resolve" =>
        LET in_ids  == PointerIds(call.in.pointers)
            res_ids == PointerIds(call.out.resolved_pointers)
            dis_ids == PointerIds(call.out.discarded_pointers)
        IN  /\ res_ids \cup dis_ids = in_ids
            /\ res_ids \cap dis_ids = {}

\* both parts are non-empty
C26_BothParts ==
    /\ MarkerCall
    /\ call.out.resolved_pointers # <<>>
    /\ call.out.discarded_pointers # <<>>

(***************************************************************************)
(* IdentityContinuityEngineV3 with an optional legacy anchor engine.        *)
(* A text is a sequence of characters; None is <<>> and a value x is <<x>> *)
(* where a field is optional.                                               *)
(***************************************************************************)
\* str.lstrip(), str.rstrip(), str.strip()
RECURSIVE lstrip(_)
lstrip(s) ==
    IF s # <<>> /\ Head(s) \in {" ", "\n"} THEN lstrip(Tail(s)) ELSE s

RECURSIVE rstrip(_)
rstrip(s) ==
    IF s # <<>> /\ s[Len(s)] \in {" ", "\n"} THEN rstrip(SubSeq(s, 1, Len(s) - 1)) ELSE s

strip(s) == rstrip(lstrip(s))

\* text.splitlines()[0]
RECURSIVE first_line(_)
first_line(s) ==
    IF s = <<>> \/ Head(s) = "\n" THEN <<>> ELSE <<Head(s)>> \o first_line(Tail(s))

\* if len(head) > 24: head = head[:24].rstrip() + "..."
_head_len == 24

\* the labels _infer_topic_label returns
AnchorLabel(hint) == [kind |-> "anchor", head |-> hint]
ContinuationLabel == [kind |-> "continuation", head |-> <<>>]
NewTopicLabel(head) == [kind |-> "new_topic", head |-> head]

\* an anchor engine: None, an object without get_hint, or one whose
\* get_hint takes no parameter, one positional parameter, the keywords
\* req and memory, other parameters (the keyword call fails), or has no
\* inspectable signature; called, it raises or returns None, "" or a hint
AnchorEngines ==
    {[present |-> FALSE, get_hint |-> "none", returns |-> "None"],
     [present |-> TRUE, get_hint |-> "none", returns |-> "None"]}
        \cup {[present |-> TRUE, get_hint |-> g, returns |-> r] :
                g \in {"no_params", "one_positional", "req_memory", "other_params",
                       "no_signature"},
                r \in {"raise", "None", "empty", "hint"}}

\* the hint an engine returns when its get_hint is called and does not raise
HintOf(engine) ==
    IF engine.returns = "None" THEN <<>>
    ELSE IF engine.returns = "empty" THEN << <<>> >>
    ELSE << <<"t", "o", "p", "i", "c">> >>

\* _get_anchor_hint_safe with the try removed: the engine's exception
\* leaves build_identity_context
_get_anchor_hint_unsafe(engine) ==
    IF ~engine.present THEN [raised |-> FALSE, hint |-> <<>>, note |-> "not_provided"]
    ELSE IF engine.get_hint = "none"
    THEN [raised |-> FALSE, hint |-> <<>>, note |-> "no_get_hint"]
    ELSE IF engine.get_hint \in {"other_params", "no_signature"} \/ engine.returns = "raise"
    THEN [raised |-> TRUE, hint |-> <<>>, note |-> "error"]
    ELSE [raised |-> FALSE, hint |-> HintOf(engine), note |-> "ok"]

\* _get_anchor_hint_safe: the hint and notes["anchor_engine"]
_get_anchor_hint_safe(engine) ==
    IF ~engine.present THEN [raised |-> FALSE, hint |-> <<>>, note |-> "not_provided"]
    ELSE IF engine.get_hint = "none"
    THEN [raised |-> FALSE, hint |-> <<>>, note |-> "no_get_hint"]
    ELSE IF engine.get_hint \in {"other_params", "no_signature"} \/ engine.returns = "raise"
    THEN [raised |-> FALSE, hint |-> <<>>, note |-> "error"]
    ELSE [raised |-> FALSE, hint |-> HintOf(engine), note |-> "ok"]

\* `if anchor_hint:` a hint that is neither None nor ""
Truthy(hint) == hint # <<>> /\ hint[1] # <<>>

\* _build_memory_preview: None for no summary, the summary, or its cut
_build_memory_preview(memory) ==
    IF memory.merged_summary \in {"None", ""} THEN "None"
    ELSE IF memory.merged_summary = "long" THEN "cut..."
    ELSE memory.merged_summary

\* _infer_topic_label, rule 3): the first line of the stripped message, cut
\* after 24 characters; the bare label for a blank message
new_topic_label(message) ==
    LET text == strip(message)
        head == strip(first_line(text))
    IN  IF text = <<>> THEN NewTopicLabel(<<>>)
        ELSE IF Len(head) > _head_len
             THEN NewTopicLabel(Append(rstrip(SubSeq(head, 1, _head_len)), "..."))
             ELSE NewTopicLabel(head)

\* _infer_topic_label with the memory rule before the anchor rule
_infer_topic_label_memory_first(message, anchor_hint, has_past_context) ==
    IF has_past_context THEN ContinuationLabel
    ELSE IF Truthy(anchor_hint) THEN AnchorLabel(anchor_hint[1])
    ELSE new_topic_label(message)

_infer_topic_label(message, anchor_hint, has_past_context) ==
    IF Truthy(anchor_hint) THEN AnchorLabel(anchor_hint[1])
    ELSE IF has_past_context THEN ContinuationLabel
    ELSE new_topic_label(message)

\* build_identity_context of an engine constructed with anchor_engine
build_identity_context_with(engine, message, memory) ==
    LET a                == _get_anchor_hint_safe(engine)
        has_past_context == memory.pointers > 0
        topic_label      == _infer_topic_label(message, a.hint, has_past_context)
    IN  IF a.raised
        THEN [raised |-> TRUE, identity_context |-> <<>>, used_anchors |-> <<>>,
              notes |-> [anchor_engine |-> a.note]]
        ELSE [raised |-> FALSE,
              identity_context |->
                  << [topic_label      |-> topic_label,
                      has_past_context |-> has_past_context,
                      anchor_hint      |-> a.hint,
                      memory_preview   |-> _build_memory_preview(memory)] >>,
              used_anchors |-> IF Truthy(a.hint) THEN a.hint ELSE <<>>,
              notes |-> [anchor_engine |-> a.note]]

\* n times the character c
Rep(c, n) == [i \in 1..n |-> c]

\* req.message: empty, blank, short, padded and of two lines, of exactly
\* 24 and of 25 characters, with a space at the cut, and a long first line
\* followed by a second one
Messages ==
    {<<>>, <<" ", "\n">>, <<"a", "b">>, <<" ", "a", " ", "\n", "b">>,
     Rep("a", _head_len), Rep("a", _head_len + 1),
     Rep("a", _head_len - 1) \o <<" ", "b", "c">>,
     Rep("a", _head_len + 2) \o <<"\n", "b">>}

\* MemorySelectionResult: number of pointers and merged_summary
IdentityMemories ==
    {[pointers |-> n, merged_summary |-> s] :
        n \in 0..2, s \in {"None", "", "summary", "long"}}

InitIdentity ==
    /\ ctrl = NewController([value_state |-> ValueState0, trait_state |-> TraitState0])
    /\ turn = [t \in Threads |-> IdleTurn]
    /\ db = NoDb
    /\ hist = NoHist(ctrl)
    /\ call = [op |-> "engine"]

IdentityCall ==
    /\ call.op = "engine"
    /\ \E engine \in AnchorEngines, message \in Messages, memory \in IdentityMemories :
          call' = [op  |-> "build_identity_context",
                   in  |-> [engine |-> engine, message |-> message, memory |-> memory],
                   out |-> build_identity_context_with(engine, message, memory)]
    /\ UNCHANGED <<ctrl, turn, db, hist>>

NextIdentity == IdentityCall

SpecIdentity == InitIdentity /\ [][NextIdentity]_vars

\* the anchor engine is wired in, its get_hint is callable in one of the
\* supported ways and returns a non-empty hint
HintReturned(engine) ==
    /\ engine.present
    /\ engine.get_hint \in {"no_params", "one_positional", "req_memory"}
    /\ engine.returns = "hint"

\* the anchor engine is absent, lacks get_hint, has an unsupported
\* signature, or raises
NoUsableEngine(engine) ==
    \/ ~engine.present
    \/ engine.get_hint \in {"none", "other_params", "no_signature"}
    \/ engine.returns = "raise"

\* C27: topic_label is the anchor hint whenever the anchor engine returns
\* a non-empty hint without raising; otherwise the fixed continuation label
\* whenever the memory result has a pointer; otherwise a label made of the
\* first line of the message cut to the fixed length. has_past_context is
\* true exactly when the pointer list is non-empty.
C27_TopicLabelPriority ==
    (call.op = "build_identity_context" /\ ~call.out.raised) =>
        LET ctx   == call.out.identity_context[1]
            label == ctx.topic_label
            line  == strip(first_line(strip(call.in.message)))
        IN  /\ ctx.has_past_context <=> (call.in.memory.pointers > 0)
            /\ IF HintReturned(call.in.engine)
               THEN label = AnchorLabel(HintOf(call.in.engine)[1])
               ELSE IF call.in.memory.pointers > 0
               THEN label = ContinuationLabel
               ELSE /\ label.kind = "new_topic"
                    /\ Len(line) <= _head_len => label.head = line
                    /\ Len(line) > _head_len =>
                          /\ Len(label.head) <= _head_len + 1
                          /\ label.head[Len(label.head)] = "..."
                          /\ IsPrefix(SubSeq(label.head, 1, Len(label.head) - 1), line)

\* a hint is returned while the memory result has pointers
C27_HintOverMemory ==
    /\ call.op = "build_identity_context"
    /\ HintReturned(call.in.engine)
    /\ call.in.memory.pointers > 0
    /\ call.out.identity_context[1].topic_label.kind = "anchor"

\* C28: when the anchor engine is absent, lacks get_hint, has a get_hint
\* with an unsupported signature, or raises, build_identity_context returns
\* normally with anchor_hint None and used_anchors empty, and topic_label
\* falls to the next priority.
C28_AnchorCallIsolated ==
    (call.op = "build_identity_context" /\ NoUsableEngine(call.in.engine)) =>
        /\ ~call.out.raised
        /\ call.out.identity_context[1].anchor_hint = <<>>
        /\ call.out.used_anchors = <<>>
        /\ call.out.identity_context[1].topic_label.kind =
              IF call.in.memory.pointers > 0 THEN "continuation" ELSE "new_topic"

\* get_hint raised, or could not be called, on a turn with memory pointers
C28_EngineRaised ==
    /\ call.op = "build_identity_context"
    /\ call.in.engine.present
    /\ call.in.engine.get_hint \in {"no_params", "other_params"}
    /\ call.in.engine.returns = "raise"
    /\ call.in.memory.pointers > 0
    /\ call.out.notes.anchor_engine = "error"

(***************************************************************************)
(* PersonaController.handle_turn, stages 1) and 2), with the components     *)
(* server.py wires together: the orchestrator over SelectiveRecall with     *)
(* recency bias, and an IdentityContinuityEngineV3 without anchor engine.   *)
(***************************************************************************)
\* identity_v3 = IdentityContinuityEngineV3(): no anchor engine
NoAnchorEngine == [present |-> FALSE, get_hint |-> "none", returns |-> "None"]

\* memory_result = self._select_memory(req, user_id) and identity_result =
\* self._identity.build_identity_context(req, memory_result); an exception
\* of the first leaves handle_turn
handle_turn_context(backend, req) ==
    LET m == select(backend, req, TRUE, ControllerKwargs)
    IN  IF m.raised
        THEN [raised |-> TRUE, stage |-> "memory",
              memory_result |-> <<>>, identity_result |-> <<>>]
        ELSE LET i == build_identity_context_with(
                          NoAnchorEngine, req.message,
                          [pointers       |-> Len(m.pointers),
                           merged_summary |-> m.merged_summary])
             IN  [raised |-> i.raised, stage |-> "identity",
                  memory_result   |-> << [pointers       |-> m.pointers,
                                          merged_summary |-> m.merged_summary] >>,
                  identity_result |-> << i >>]

\* messages of a turn: with or without a vague reference, short or longer
\* than the label
TurnRequests ==
    {[enc |-> "ok", marker |-> m, empty |-> FALSE, message |-> x] :
        m \in BOOLEAN, x \in {<<"a", "b">>, Rep("a", _head_len + 1)}}

HandleTurnCall ==
    /\ call.op = "backend"
    /\ \E req \in TurnRequests :
          LET backend == [episodes |-> call.episodes, fetch |-> "ok"]
          IN  call' = [op  |-> "handle_turn",
                       in  |-> [backend |-> backend, req |-> req],
                       out |-> handle_turn_context(backend, req)]
    /\ UNCHANGED <<ctrl, turn, db, hist>>

NextWired == AddEpisode \/ HandleTurnCall

SpecWired == InitRecall /\ [][NextWired]_vars

\* C29: a turn whose message has no vague reference, on an empty memory
\* backend, completes; its memory selection has no pointers and
\* merged_summary None, and its identity context has has_past_context
\* false and a new-topic label made from the message.
C29_ScenarioA ==
    (/\ call.op = "handle_turn"
     /\ ~call.in.req.marker
     /\ call.in.backend.episodes = <<>>) =>
        /\ ~call.out.raised
        /\ call.out.memory_result[1].pointers = <<>>
        /\ call.out.memory_result[1].merged_summary = None
        /\ ~call.out.identity_result[1].identity_context[1].has_past_context
        /\ call.out.identity_result[1].identity_context[1].topic_label
              = new_topic_label(call.in.req.message)

(***************************************************************************)
(* The reasons trace of GlobalStateMachine.decide.                          *)
(***************************************************************************)
\* C30: whenever safety_flag is escalated, blocked or intervened, decide
\* returns SAFETY_LOCK with a reasons entry that names the flag value,
\* whatever the other signals are, and with no entry of the overload or
\* the reflective rule.
C30_ReasonsNameSafetyFlag ==
    (call.op = "decide" /\ call.in.safety_flag \in SafetyFlags) =>
        /\ call.out.state = "SAFETY_LOCK"
        /\ \E i \in 1..Len(call.out.reasons) :
              call.out.reasons[i] = "safety_flag=" \o call.in.safety_flag
        /\ \A i \in 1..Len(call.out.reasons) :
              call.out.reasons[i] \notin {"overload_score", "reflective_score"}

\* a safety flag together with an overload score and a reflective score
\* that would each fire their rule
C30_FlagAgainstOtherSignals ==
    /\ call.op = "decide"
    /\ call.in.safety_flag = "intervened"
    /\ call.in.overload_score # NoScore
    /\ call.in.overload_score[1] >= _overload_threshold
    /\ call.out.meta.reflective_score >= ReflectiveTrigger
    /\ call.in.value_state.safety_bias >= _high_safety_bias_threshold
    /\ Len(call.out.reasons) = 1

(***************************************************************************)
(* MemoryOrchestrator.select as PersonaController._select_memory calls it.  *)
(***************************************************************************)
\* C35: select, called with the keyword arguments user_id, episode_store
\* and persona_db, forwards them to SelectiveRecall.recall, which accepts
\* them, and returns a MemorySelectionResult without raising.
C35_SelectAcceptsControllerKwargs ==
    (call.op = "select" /\ call.in.backend_kwargs = ControllerKwargs) =>
        ~call.out.raised

(***************************************************************************)
(* The recency bonus against the selection threshold.                       *)
(***************************************************************************)
\* the similarity the provider yields for an episode of the backend
ProvidedSimilarity(req, ep) ==
    IF req.enc = "raise" \/ ep.text.enc = "raise" THEN 0 ELSE ep.text.sim

\* C40: with min_score 0.12 and recency_weight 0.03 the recency bonus alone
\* never selects an episode: every returned pointer is of an episode whose
\* similarity to the message is at least min_score - recency_weight > 0, so
\* recall returns the empty list when the message cannot be vectorized or
\* every episode has similarity 0.
C40_BonusAloneNeverSelects ==
    call.op = "recall" =>
        LET eps == call.in.backend.episodes
        IN  /\ _min_score - _recency_weight > 0
            /\ \A i \in 1..Len(call.out.pointers) :
                  \E k \in 1..Len(eps) :
                      /\ eps[k].episode_id = call.out.pointers[i].episode_id
                      /\ ProvidedSimilarity(call.in.req, eps[k])
                             >= _min_score - _recency_weight
            /\ (\A k \in 1..Len(eps) : ProvidedSimilarity(call.in.req, eps[k]) = 0)
                  => call.out.pointers = <<>>

\* the bonus lifted an episode below the threshold over it, while an
\* episode the provider failed on, first in the list, was not selected
C40_BonusLiftedOneOnly ==
    /\ call.op = "recall"
    /\ call.in.use_recency
    /\ Len(call.in.backend.episodes) >= 2
    /\ call.in.backend.episodes[1].episode_id # 0
    /\ ProvidedSimilarity(call.in.req, call.in.backend.episodes[1]) = 0
    /\ \E i \in 1..Len(call.out.pointers), k \in 1..Len(call.in.backend.episodes) :
          /\ call.in.backend.episodes[k].episode_id = call.out.pointers[i].episode_id
          /\ ProvidedSimilarity(call.in.req, call.in.backend.episodes[k]) < _min_score

(***************************************************************************)
(* The delta map of TraitDriftEngine.apply.                                 *)
(***************************************************************************)
\* C38: for every apply call and every axis, new_state[axis] is
\* current[axis] + delta[axis] clamped to [-max_abs_value, +max_abs_value],
\* and delta[axis] is the sum of the decay and of every influence applied to
\* that axis in the call.
C38_DeltaAccountsForUpdate ==
    call.op = "apply" =>
        LET in     == call.in
            zero   == TraitAcc(TraitState0)
            decay  == _apply_decay(TraitAcc(in.current)).deltas
            ident  == _apply_identity_influence(zero, in.identity).deltas
            mem    == _apply_memory_influence(zero, in.memory).deltas
            val    == _apply_value_influence(zero, in.value_state).deltas
            affect == _apply_affect_influence(zero, in.affect_signal).deltas
        IN  \A k \in TraitAxes :
              /\ call.out.new_state[k] = _clip_state(
                    [a \in TraitAxes |-> in.current[a] + call.out.delta[a]])[k]
              /\ call.out.delta[k] = decay[k] + ident[k] + mem[k] + val[k] + affect[k]

\* decay and three influences moved the same axis, and the sum was clamped
C38_SeveralInfluencesOnCalm ==
    /\ call.op = "apply"
    /\ call.in.current.calm # 0
    /\ call.in.identity.has_past_context
    /\ call.in.value_state.safety_bias > 0
    /\ AffectGet(call.in.affect_signal, "tension") # 0
    /\ Abs(call.in.current.calm + call.out.delta.calm) > _limit

(***************************************************************************)
(* The frame of TraitDriftEngine.apply inside handle_turn.                  *)
(***************************************************************************)
\* C39: apply leaves its inputs unchanged: the controller's TraitState and
\* ValueState and the turn's memory and identity results are the same after
\* the call as before it; the controller's state changes only by the
\* assignment that follows in handle_turn.
C39_ApplyLeavesInputs ==
    [][\A t \in Threads :
          (turn[t].pc = "trait" /\ turn'[t].pc = "trait_set") =>
              /\ ctrl' = ctrl
              /\ turn'[t].memory_result = turn[t].memory_result
              /\ turn'[t].identity_result = turn[t].identity_result]_vars

\* apply has returned a new state that differs from the controller's, which
\* is not yet assigned
C39_NewStateNotYetAssigned ==
    \E t \in Threads :
        /\ turn[t].pc = "trait_set"
        /\ turn[t].trait_result.new_state # ctrl.trait_state
        /\ \E k \in TraitAxes : turn[t].trait_result.delta[k] # 0

(***************************************************************************)
(* The size of one ValueDriftEngine.step.                                   *)
(***************************************************************************)
\* the reward-driven drift step added to an axis after the decay
AppliedDrift(k) == call.raw[k] - _decay_toward_center(call.in.traits[k])

\* C36: for every reward signal step accepts, the reward-driven drift added
\* to each axis after the decay has magnitude at most max_step, and the step
\* size used lies between min_step and max_step.
C36_DriftWithinMaxStep ==
    call.op = "step" =>
        LET step_size == _compute_step_size(_get_global_reward(call.in.reward))
        IN  /\ config_min_step <= step_size
            /\ step_size <= config_max_step
            /\ \A k \in TraitAxes : Abs(AppliedDrift(k)) <= config_max_step

\* the step size alone is always between min_step and max_step
C36_StepSizeBounded ==
    call.op = "step" =>
        LET step_size == _compute_step_size(_get_global_reward(call.in.reward))
        IN  config_min_step <= step_size /\ step_size <= config_max_step

\* the drift stays within max_step when the rewards are within [-1, 1]
C36_DriftBoundedForUnitRewards ==
    (/\ call.op = "step"
     /\ Abs(_get_global_reward(call.in.reward)) <= One
     /\ \A k \in TraitAxes : Abs(_get_trait_reward(call.in.reward)[k]) <= One) =>
        \A k \in TraitAxes : Abs(AppliedDrift(k)) <= config_max_step

(***************************************************************************)
(* OpenAILLMClient.encode, the similarity provider.  A vector is its        *)
(* length and whether it is all zero; the embeddings API answers with an    *)
(* embedding of some length, with a response that holds none, or raises.    *)
(***************************************************************************)
MaxEncodeCalls == 3  \* encode calls in a sequence

\* self._fallback_dim = 1536
_fallback_dim == 1536

\* lengths of the embeddings the API returns
EmbeddingDims == {0, 2, 3}

\* what client.embeddings.create does on one call
EmbeddingOutcomes ==
    {[kind |-> "raise", dim |-> 0], [kind |-> "no_data", dim |-> 0]}
        \cup {[kind |-> "embedding", dim |-> d] : d \in EmbeddingDims}

\* encode that keeps the fallback length it was constructed with
client_encode_fixed_dim(fallback_dim, outcome) ==
    IF outcome.kind = "embedding"
    THEN [raised |-> FALSE, vec |-> [dim |-> outcome.dim, zero |-> FALSE],
          fallback_dim |-> fallback_dim]
    ELSE [raised |-> FALSE, vec |-> [dim |-> fallback_dim, zero |-> TRUE],
          fallback_dim |-> fallback_dim]

\* encode: the embedding, remembered by its length; on any exception the
\* zero vector of the remembered length
client_encode(fallback_dim, outcome) ==
    IF outcome.kind = "embedding"
    THEN [raised |-> FALSE, vec |-> [dim |-> outcome.dim, zero |-> FALSE],
          fallback_dim |-> outcome.dim]
    ELSE [raised |-> FALSE, vec |-> [dim |-> fallback_dim, zero |-> TRUE],
          fallback_dim |-> fallback_dim]

InitEncode ==
    /\ ctrl = NewController([value_state |-> ValueState0, trait_state |-> TraitState0])
    /\ turn = [t \in Threads |-> IdleTurn]
    /\ db = NoDb
    /\ hist = NoHist(ctrl)
    /\ call = [op |-> "client", fallback_dim |-> _fallback_dim, log |-> <<>>]

EncodeCall ==
    /\ call.op = "client"
    /\ Len(call.log) < MaxEncodeCalls
    /\ \E outcome \in EmbeddingOutcomes :
          LET r == client_encode(call.fallback_dim, outcome)
          IN  call' = [call EXCEPT !.fallback_dim = r.fallback_dim,
                                   !.log = Append(@, [in |-> outcome, out |-> r])]
    /\ UNCHANGED <<ctrl, turn, db, hist>>

NextEncode == EncodeCall

SpecEncode == InitEncode /\ [][NextEncode]_vars

\* the length of the most recent successful embedding before call i of the
\* log, the configured default when there is none
RECURSIVE LastEmbeddingDim(_, _)
LastEmbeddingDim(log, i) ==
    IF i <= 1 THEN _fallback_dim
    ELSE IF log[i - 1].in.kind = "embedding" THEN log[i - 1].in.dim
    ELSE LastEmbeddingDim(log, i - 1)

\* C31: encode never raises to the caller: over any sequence of encode
\* calls, a call whose embedding request fails returns an all-zero vector
\* whose length is the length of the most recent successful embedding, the
\* configured default when none has succeeded yet.
C31_EncodeNeverRaises ==
    call.op = "client" =>
        \A i \in 1..Len(call.log) :
            /\ ~call.log[i].out.raised
            /\ call.log[i].in.kind # "embedding" =>
                  /\ call.log[i].out.vec.zero
                  /\ call.log[i].out.vec.dim = LastEmbeddingDim(call.log, i)

\* a failure after two embeddings of different lengths, and one before any
C31_FailureAfterTwoLengths ==
    /\ call.op = "client"
    /\ Len(call.log) = 3
    /\ call.log[1].in.kind = "embedding"
    /\ call.log[2].in.kind = "embedding"
    /\ call.log[1].in.dim # call.log[2].in.dim
    /\ call.log[3].in.kind = "raise"
    /\ call.log[3].out.vec.dim = call.log[2].in.dim

\* the stage names a turn has passed
StagesOf(t) == {turn[t].trace[i] : i \in DOMAIN turn[t].trace}

\* C34: when the language-model transport fails, generate returns the fixed
\* reply instead of raising, and handle_turn completes for that turn: it
\* does not raise, the value and trait states are the updated ones, and the
\* episode write-back has been attempted.
C34_TransportFailureAbsorbed ==
    \A t \in Threads :
        (turn[t].args.llm = "transport_error" /\ "llm" \in StagesOf(t)) =>
            /\ turn[t].pc \in {"persist", "done"}
            /\ turn[t].reply_text = UnableReply
            /\ ctrl.value_state = turn[t].value_result.new_state
            /\ ctrl.trait_state = turn[t].trait_result.new_state
            /\ turn[t].pc = "done" =>
                  /\ "persist" \in StagesOf(t)
                  /\ ctrl = TurnOutcome(turn[t].entry, turn[t].args)

\* a turn whose transport failed has returned with the fixed reply, changed
\* states and a written episode
C34_ReturnedWithFixedReply ==
    \E t \in Threads :
        /\ turn[t].pc = "done"
        /\ turn[t].args.llm = "transport_error"
        /\ turn[t].reply_text = UnableReply
        /\ ctrl.value_state # turn[t].entry.value_state
        /\ ctrl.trait_state # turn[t].entry.trait_state
        /\ db.episode_adds > 0

(***************************************************************************)
(* persona_core.memory.episode_store.EpisodeStore on its JSON file, called  *)
(* from the request threads.  add is a read of the whole file followed by   *)
(* a write of the whole file; every operation reads through _load_json.     *)
(* written holds the episodes of the adds that have returned; reset tells   *)
(* that some read has raised.                                               *)
(***************************************************************************)
MaxLogAdds == 3      \* add calls on one file

LogReads == {"load_all", "fetch_recent", "fetch_by_ids", "count"}

\* _load_json: the parsed list, or, on any exception of the read,
\* self._save_json([]) and the empty list
_load_json(file, readable) ==
    IF readable
    THEN [file |-> file, raw |-> file]
    ELSE [file |-> <<>>, raw |-> <<>>]

InitLog ==
    /\ ctrl = NewController([value_state |-> ValueState0, trait_state |-> TraitState0])
    /\ turn = [t \in Threads |-> IdleTurn]
    /\ db = NoDb
    /\ hist = NoHist(ctrl)
    /\ call = [op      |-> "log",
               file    |-> <<>>,
               written |-> {},
               adds    |-> 0,
               reset   |-> FALSE,
               th      |-> [t \in Threads |-> [pc |-> "idle", raw |-> <<>>, ep |-> 0]],
               out     |-> <<>>]

\* add, first half: raw = self._load_json()
LogAddLoad(t) ==
    /\ call.op = "log"
    /\ call.th[t].pc = "idle"
    /\ call.adds < MaxLogAdds
    /\ \E readable \in BOOLEAN :
          LET r == _load_json(call.file, readable)
          IN  call' = [call EXCEPT !.file = r.file,
                                   !.adds = @ + 1,
                                   !.reset = @ \/ ~readable,
                                   !.th[t] = [pc |-> "loaded", raw |-> r.raw,
                                              ep |-> call.adds + 1]]
    /\ UNCHANGED <<ctrl, turn, db, hist>>

\* add, second half: raw.append(...); raw.sort(...); self._save_json(raw).
\* The episode's timestamp is the time of its turn, later than those of the
\* turns before it.
LogAddSave(t) ==
    /\ call.op = "log"
    /\ call.th[t].pc = "loaded"
    /\ LET ep == [episode_id |-> call.th[t].ep, timestamp |-> call.th[t].ep]
       IN  call' = [call EXCEPT !.file = store_add(call.th[t].raw, ep),
                                !.written = @ \cup {ep},
                                !.th[t] = [pc |-> "idle", raw |-> <<>>, ep |-> 0]]
    /\ UNCHANGED <<ctrl, turn, db, hist>>

\* load_all, fetch_recent, fetch_by_ids, count: each starts from
\* self._load_json()
LogRead(t) ==
    /\ call.op = "log"
    /\ call.th[t].pc = "idle"
    /\ \E op \in LogReads, readable \in BOOLEAN :
          LET r == _load_json(call.file, readable)
          IN  call' = [call EXCEPT !.file = r.file, !.out = r.raw,
                                   !.reset = @ \/ ~readable]
    /\ UNCHANGED <<ctrl, turn, db, hist>>

NextLog == \E t \in Threads : LogAddLoad(t) \/ LogAddSave(t) \/ LogRead(t)

SpecLog == InitLog /\ [][NextLog]_vars

\* what load_all returns from a readable file
LoadAll(file) == {file[i] : i \in 1..Len(file)}

\* C33: every episode that a completed add has written is still returned
\* unchanged by load_all, after any sequence of add, load_all, fetch_recent,
\* fetch_by_ids and count, reads of an unreadable file and overlapping adds
\* included.
C33_WrittenEpisodesKept ==
    call.op = "log" => call.written \subseteq LoadAll(call.file)

\* the same with every read succeeding: only overlapping adds remain
C33_KeptWhenReadable ==
    (call.op = "log" /\ ~call.reset) => call.written \subseteq LoadAll(call.file)

(***************************************************************************)
(* PersonaDB: the value and the trait snapshot files, each a JSON list of   *)
(* records kept in timestamp order.  A loaded state is <<state>>, no state  *)
(* (None) is <<>>.  The clock of datetime.now does not run backwards.       *)
(***************************************************************************)
MaxSnapshots == 3    \* snapshots stored in the two files together
MaxClock == 2        \* distinct values of the clock

SnapshotKinds == {"value", "trait"}

\* the axes of ValueState and of TraitState
AxesOf(kind) == IF kind = "value" THEN ValueAxes ELSE TraitAxes

\* state.to_dict() of the states a snapshot is stored with
SnapshotStates(kind) ==
    IF kind = "value"
    THEN {ValueState0,
          [stability |-> 1600000, openness |-> 0, safety_bias |-> 600000, user_alignment |-> 0]}
    ELSE {TraitState0, [calm |-> 1000000, empathy |-> 0, curiosity |-> 1200000]}

\* the user_id of a snapshot: a user, or None from a controller without a
\* default user
SnapshotUsers == Users \cup {None}

\* _append_record: raw.append(record); raw.sort(key=timestamp), stable
_append_record(raw, rec) ==
    LET NotLater(r) == r.timestamp <= rec.timestamp
        Later(r)    == r.timestamp > rec.timestamp
    IN  SelectSeq(raw, NotLater) \o <<rec>> \o SelectSeq(raw, Later)

\* load_last_*_state that takes the last record whatever its user
load_last_state_any_user(kind, raw, user_id) ==
    IF raw = <<>> THEN <<>>
    ELSE LET st == raw[Len(raw)].state
         IN  <<[k \in AxesOf(kind) |-> IF k \in DOMAIN st THEN st[k] ELSE 0]>>

\* load_last_value_state / load_last_trait_state: None for an empty file;
\* otherwise the state of the first record from the end whose user_id is
\* the one asked for (any record when user_id is None), axis by axis with
\* 0.0 for a missing key; None when there is no such record
load_last_state(kind, raw, user_id) ==
    LET Matches == {i \in 1..Len(raw) : user_id = None \/ raw[i].user_id = user_id}
    IN  IF Matches = {} THEN <<>>
        ELSE LET last == CHOOSE i \in Matches : \A j \in Matches : j <= i
                 st   == raw[last].state
             IN  <<[k \in AxesOf(kind) |-> IF k \in DOMAIN st THEN st[k] ELSE 0]>>

\* PersonaServerBridge.__init__: the restored state, or the default one
initial_state(kind, loaded) ==
    IF loaded = <<>>
    THEN (IF kind = "value" THEN ValueState0 ELSE TraitState0)
    ELSE loaded[1]

InitSnapshots ==
    /\ ctrl = NewController([value_state |-> ValueState0, trait_state |-> TraitState0])
    /\ turn = [t \in Threads |-> IdleTurn]
    /\ db = NoDb
    /\ hist = NoHist(ctrl)
    /\ call = [op     |-> "persona_db",
               files  |-> [k \in SnapshotKinds |-> <<>>],
               clock  |-> 1,
               stored |-> [k \in SnapshotKinds |-> [u \in SnapshotUsers |-> <<>>]]]

\* store_value_snapshot / store_trait_snapshot; stored keeps, per file and
\* user, the state of the latest call
StoreSnapshotCall ==
    /\ call.op = "persona_db"
    /\ Len(call.files["value"]) + Len(call.files["trait"]) < MaxSnapshots
    /\ \E kind \in SnapshotKinds, u \in SnapshotUsers, now \in call.clock..MaxClock :
       \E s \in SnapshotStates(kind) :
          call' = [call EXCEPT
                     !.files[kind] = _append_record(@, [user_id |-> u, timestamp |-> now,
                                                        state |-> s]),
                     !.clock = now,
                     !.stored[kind][u] = <<s>>]
    /\ UNCHANGED <<ctrl, turn, db, hist>>

\* load_last_value_state / load_last_trait_state, as the bridge calls them
\* when it is constructed
LoadLastCall ==
    /\ call.op = "persona_db"
    /\ \E kind \in SnapshotKinds, u \in SnapshotUsers :
          LET loaded == load_last_state(kind, call.files[kind], u)
          IN  call' = [op     |-> "load_last",
                       files  |-> call.files,
                       clock  |-> call.clock,
                       stored |-> call.stored,
                       in     |-> [kind |-> kind, user_id |-> u],
                       out    |-> [loaded |-> loaded,
                                   initial |-> initial_state(kind, loaded)]]
    /\ UNCHANGED <<ctrl, turn, db, hist>>

NextSnapshots == StoreSnapshotCall \/ LoadLastCall

SpecSnapshots == InitSnapshots /\ [][NextSnapshots]_vars

\* a load for a user (not the unfiltered load of user_id None)
UserLoad == call.op = "load_last" /\ call.in.user_id \in Users

\* C32: after any sequence of store_trait_snapshot / store_value_snapshot
\* calls for any users, load_last_trait_state(user_id) and
\* load_last_value_state(user_id) return the state of that user's most
\* recently stored snapshot, and None when the user has none, so that the
\* caller starts from the default state.
C32_SnapshotRestore ==
    UserLoad =>
        /\ call.out.loaded = call.stored[call.in.kind][call.in.user_id]
        /\ call.out.loaded = <<>> =>
              call.out.initial = (IF call.in.kind = "value" THEN ValueState0 ELSE TraitState0)

\* a user's load after two snapshots of that user with a later one of
\* another user in the same file
C32_LatestOfThatUser ==
    /\ UserLoad
    /\ Len(call.files[call.in.kind]) = 3
    /\ call.files[call.in.kind][1].user_id = call.in.user_id
    /\ call.files[call.in.kind][2].user_id = call.in.user_id
    /\ call.files[call.in.kind][3].user_id \in Users \ {call.in.user_id}
    /\ call.files[call.in.kind][1].state # call.files[call.in.kind][2].state
    /\ call.files[call.in.kind][3].state # call.files[call.in.kind][2].state
    /\ call.out.loaded = <<call.files[call.in.kind][2].state>>

\* a user's load from a file that holds only other users' snapshots
C32_NoSnapshotOfThatUser ==
    /\ UserLoad
    /\ call.files[call.in.kind] # <<>>
    /\ call.out.loaded = <<>>

(***************************************************************************)
(* sigmaris_persona_core.state_machine.StateMachine (legacy).  Times are    *)
(* seconds of time.time(); an attribute read is <<value>>, or <<>> when     *)
(* the object has no such attribute (AttributeError).                       *)
(***************************************************************************)
MaxLegacySteps == 3  \* step calls on one StateMachine

\* StateMachineConfig: the default one, and one with a small message limit
StateMachineConfigs ==
    {[overload_limit_per_min |-> 20, reflect_cooldown_sec |-> 30,
      introspect_cooldown_sec |-> 60],
     [overload_limit_per_min |-> 1, reflect_cooldown_sec |-> 30,
      introspect_cooldown_sec |-> 60]}

\* seconds between two step calls
StepGaps == {0, 20, 40, 70}

Depths == {"normal", "deep"}

\* self.config.<name>
ConfigAttr(config, name) == IF name \in DOMAIN config THEN <<config[name]>> ELSE <<>>

\* _update_load
_update_load(sm, now) ==
    [sm EXCEPT !.messages_last_minute =
                  (IF now - sm.last_activity_ts > 60 THEN 0 ELSE @) + 1,
               !.last_activity_ts = now]

\* StateMachine.step: the machine it leaves and what the caller gets
StateMachine_step(sm0, now, user_requested_depth, safety_flagged, reflection_candidate, introspection_candidate) ==
    LET sm       == _update_load(sm0, now)
        Returns(m) == [sm |-> m, raised |-> FALSE, state |-> m.current]
        Raises     == [sm |-> sm, raised |-> TRUE, state |-> None]
        reflection_cooldown    == ConfigAttr(sm.config, "reflection_cooldown_sec")
        introspection_cooldown == ConfigAttr(sm.config, "introspection_cooldown_sec")
        Dialogue   == Returns([sm EXCEPT !.current = "dialogue"])
        Introspect ==
            IF ~introspection_candidate THEN Dialogue
            ELSE IF introspection_cooldown = <<>> THEN Raises
            ELSE IF now - sm.last_introspection_ts > introspection_cooldown[1]
                 THEN Returns([sm EXCEPT !.current = "introspect",
                                         !.last_introspection_ts = now])
                 ELSE Dialogue
    IN  IF safety_flagged THEN Returns([sm EXCEPT !.current = "safety"])
        ELSE IF sm.messages_last_minute > sm.config.overload_limit_per_min
             THEN Returns([sm EXCEPT !.current = "overload-prevent"])
        ELSE IF user_requested_depth # "deep" THEN Dialogue
        ELSE IF ~reflection_candidate THEN Introspect
        ELSE IF reflection_cooldown = <<>> THEN Raises
        ELSE IF now - sm.last_reflection_ts > reflection_cooldown[1]
             THEN Returns([sm EXCEPT !.current = "reflect", !.last_reflection_ts = now])
             ELSE Introspect

NoLegacyStep ==
    [user_requested_depth |-> "normal", safety_flagged |-> FALSE,
     reflection_candidate |-> FALSE, introspection_candidate |-> FALSE,
     now |-> 0, last_reflection_ts |-> 0]

\* a StateMachine constructed at time 1000 of the clock
InitLegacy ==
    /\ ctrl = NewController([value_state |-> ValueState0, trait_state |-> TraitState0])
    /\ turn = [t \in Threads |-> IdleTurn]
    /\ db = NoDb
    /\ hist = NoHist(ctrl)
    /\ \E c \in StateMachineConfigs :
          call = [op   |-> "state_machine",
                  n    |-> 0,
                  now  |-> 1000,
                  sm   |-> [config |-> c, current |-> "idle", last_reflection_ts |-> 0,
                            last_introspection_ts |-> 0, last_activity_ts |-> 1000,
                            messages_last_minute |-> 0],
                  in   |-> NoLegacyStep,
                  out  |-> [raised |-> FALSE, state |-> "idle"],
                  reflects |-> <<>>]

\* one step call, some seconds after the one before; reflects lists the
\* times of the calls that returned "reflect"
LegacyStepCall ==
    /\ call.op = "state_machine"
    /\ call.n < MaxLegacySteps
    /\ \E gap \in StepGaps, depth \in Depths, safety_flagged \in BOOLEAN,
          reflection_candidate \in BOOLEAN, introspection_candidate \in BOOLEAN :
          LET now == call.now + gap
              r   == StateMachine_step(call.sm, now, depth, safety_flagged,
                                       reflection_candidate, introspection_candidate)
          IN  call' = [op   |-> "state_machine",
                       n    |-> call.n + 1,
                       now  |-> now,
                       sm   |-> r.sm,
                       in   |-> [user_requested_depth |-> depth,
                                 safety_flagged |-> safety_flagged,
                                 reflection_candidate |-> reflection_candidate,
                                 introspection_candidate |-> introspection_candidate,
                                 now |-> now,
                                 last_reflection_ts |-> call.sm.last_reflection_ts],
                       out  |-> [raised |-> r.raised, state |-> r.state],
                       reflects |-> IF r.state = "reflect"
                                    THEN Append(call.reflects, now)
                                    ELSE call.reflects]
    /\ UNCHANGED <<ctrl, turn, db, hist>>

NextLegacy == LegacyStepCall

SpecLegacy == InitLegacy /\ [][NextLegacy]_vars

\* a step has run with no safety flag, the message count within the limit,
\* depth "deep" and a reflection candidate
ReflectCase ==
    /\ call.op = "state_machine"
    /\ call.n > 0
    /\ ~call.in.safety_flagged
    /\ call.sm.messages_last_minute <= call.sm.config.overload_limit_per_min
    /\ call.in.user_requested_depth = "deep"
    /\ call.in.reflection_candidate

\* C37: with no safety flag, the message count within overload_limit_per_min,
\* depth "deep" and a reflection candidate, step returns "reflect" exactly
\* when more than the configured reflect cooldown has elapsed since the last
\* "reflect", and then records the reflection time; two "reflect" results
\* are never closer together than the cooldown, and a safety flag or an
\* exceeded message limit wins over "reflect".
C37_ReflectAfterCooldown ==
    call.op = "state_machine" =>
        /\ ReflectCase =>
              /\ ~call.out.raised
              /\ (call.out.state = "reflect")
                    <=> (call.in.now - call.in.last_reflection_ts
                            > call.sm.config.reflect_cooldown_sec)
              /\ call.out.state = "reflect" => call.sm.last_reflection_ts = call.in.now
        /\ \A i \in 1..Len(call.reflects) : \A j \in 1..Len(call.reflects) :
              i < j => call.reflects[j] - call.reflects[i] > call.sm.config.reflect_cooldown_sec
        /\ (call.n > 0 /\ call.in.safety_flagged) => call.out.state = "safety"
        /\ (call.n > 0 /\ ~call.in.safety_flagged
              /\ call.sm.messages_last_minute > call.sm.config.overload_limit_per_min)
              => call.out.state = "overload-prevent"

\* the precedence part alone: a safety flag, then an exceeded message limit,
\* decide the result whatever the other arguments are
C37_SafetyAndOverloadFirst ==
    (call.op = "state_machine" /\ call.n > 0) =>
        /\ call.in.safety_flagged => (~call.out.raised /\ call.out.state = "safety")
        /\ (~call.in.safety_flagged
              /\ call.sm.messages_last_minute > call.sm.config.overload_limit_per_min)
              => (~call.out.raised /\ call.out.state = "overload-prevent")

\* step never returns "reflect" or "introspect"
C37_ReflectNeverReturned ==
    call.op = "state_machine" => call.out.state \notin {"reflect", "introspect"}

====
